---- MODULE Spec2Model ----
(***************************************************************************)
(* BLAKE3 streaming Hasher, XofReader and one-shot hash of blake3-jit.     *)
(*                                                                         *)
(* Words are 4-tuples of bytes in little-endian order.  The compression    *)
(* function is kept symbolic: its result is the tagged tuple of its        *)
(* arguments, so two results are equal exactly when the same compression   *)
(* was applied to the same chaining value, block, counter, length, flags.  *)
(* A chaining value is therefore one term (the 8 words are always copied   *)
(* together by the code).                                                  *)
(***************************************************************************)
EXTENDS Integers, Sequences, FiniteSets, TLC

VARIABLES hasher, fed, ok, hist, last, xof, xof0, xofOut, mod, call

vars == <<hasher, fed, ok, hist, last, xof, xof0, xofOut, mod, call>>

(***************************************************************************)
(* Bounds of the model.                                                    *)
(***************************************************************************)
MaxUpdates == 2
MaxFinalizes == 2
MaxReads == 2

(***************************************************************************)
(* constants.ts                                                            *)
(***************************************************************************)
BLOCK_LEN == 64
CHUNK_LEN == 1024
OUT_LEN == 32
KEY_LEN == 32
MAX_DEPTH == 54
CHUNK_START == 1
CHUNK_END == 2
PARENT == 4
ROOT == 8
KEYED_HASH == 16
DERIVE_KEY_CONTEXT == 32
DERIVE_KEY_MATERIAL == 64
IV == <<"iv">>

IS_LITTLE_ENDIAN == TRUE

(***************************************************************************)
(* Integer helpers for the JavaScript operators |, &, Math.min.            *)
(***************************************************************************)
Min(a, b) == IF a < b THEN a ELSE b

RECURSIVE BitOr(_, _)
BitOr(a, b) ==
  IF a = 0 THEN b
  ELSE IF b = 0 THEN a
  ELSE (IF a % 2 = 1 \/ b % 2 = 1 THEN 1 ELSE 0) + 2 * BitOr(a \div 2, b \div 2)

RECURSIVE BitAnd(_, _)
BitAnd(a, b) ==
  IF a = 0 \/ b = 0 THEN 0
  ELSE (IF a % 2 = 1 /\ b % 2 = 1 THEN 1 ELSE 0) + 2 * BitAnd(a \div 2, b \div 2)

(***************************************************************************)
(* The bytes handed to the program: byte p of the input stream.            *)
(***************************************************************************)
InputByte(p) == p % 251

ZeroWord == <<0, 0, 0, 0>>
ZeroWords16 == [i \in 1..16 |-> ZeroWord]
Zero8 == <<"z8">>

\* A Uint32Array view over little-endian memory: word i of the view that
\* starts at stream position pos.
uint32View(pos, i) ==
  <<InputByte(pos + 4 * i), InputByte(pos + 4 * i + 1),
    InputByte(pos + 4 * i + 2), InputByte(pos + 4 * i + 3)>>

readLittleEndianWordsFull(pos) ==
  [i \in 1..16 |->
     <<InputByte(pos + 4 * (i - 1)), InputByte(pos + 4 * (i - 1) + 1),
       InputByte(pos + 4 * (i - 1) + 2), InputByte(pos + 4 * (i - 1) + 3)>>]

(***************************************************************************)
(* compress(cv, block, out, fullOutput, counter, blockLen, flags): the     *)
(* chaining value (words 0..7 of the output) as a symbolic term.  Byte k   *)
(* of the 16-word output of the root compression with a given counter is   *)
(* identified by OutByte; the seed of the output is carried separately.    *)
(***************************************************************************)
compress(cv, block, counter, blockLen, flags) ==
  <<"cv", cv, block, counter, blockLen, flags>>

OutByte(counter, wordIdx, byteIdx) == counter * 64 + wordIdx * 4 + byteIdx

(***************************************************************************)
(* class ChunkState                                                        *)
(***************************************************************************)
ChunkState(keyWords, chunkCounter, flags) ==
  [chainingValue |-> keyWords, chunkCounter |-> chunkCounter,
   blockWords |-> ZeroWords16, blockLen |-> 0, blocksCompressed |-> 0,
   flags |-> flags]

\* Mutant of the start flag: CHUNK_START on every block of a chunk.
startFlag_Always(cs) == CHUNK_START

startFlag(cs) == IF cs.blocksCompressed = 0 THEN CHUNK_START ELSE 0

\* Mutant of the byte-by-byte loop: the byte is or-ed into the word at
\* every byte index, the first included.
fillByte_OrOnly(word, p, blockLen, pos, take) ==
  IF p < blockLen \/ p >= blockLen + take THEN word
  ELSE LET byteIdx == BitAnd(p, 3)
           b == InputByte(pos + (p - blockLen))
       IN [word EXCEPT ![byteIdx + 1] = BitOr(@, b)]

\* One iteration of the byte-by-byte loop of ChunkState.update, for block
\* position p, on the word that holds it; positions outside
\* blockLen .. blockLen + take - 1 are not visited by the loop.
fillByte(word, p, blockLen, pos, take) ==
  IF p < blockLen \/ p >= blockLen + take THEN word
  ELSE LET byteIdx == BitAnd(p, 3)
           b == InputByte(pos + (p - blockLen))
       IN IF byteIdx = 0 THEN <<b, 0, 0, 0>>
          ELSE [word EXCEPT ![byteIdx + 1] = BitOr(@, b)]

\* The byte-by-byte loop of ChunkState.update for a partial block, word by
\* word: the iterations of one word in their order.
fillPartial(words, blockLen, pos, take) ==
  [w \in 1..16 |->
     LET p0 == 4 * (w - 1)
     IN fillByte(fillByte(fillByte(fillByte(words[w], p0, blockLen, pos, take),
                                   p0 + 1, blockLen, pos, take),
                          p0 + 2, blockLen, pos, take),
                 p0 + 3, blockLen, pos, take)]

\* The block load of ChunkState.update: threw is the RangeError of
\* new Uint32Array(buffer, offset, 16) for an offset that is no multiple of 4.
loadBlock(cs, pos, addr, take) ==
  IF IS_LITTLE_ENDIAN /\ cs.blockLen = 0 /\ take = BLOCK_LEN
  THEN [words |-> [i \in 1..16 |-> uint32View(pos, i - 1)], threw |-> addr % 4 # 0]
  ELSE IF cs.blockLen = 0 /\ take = BLOCK_LEN
  THEN [words |-> readLittleEndianWordsFull(pos), threw |-> FALSE]
  ELSE [words |-> fillPartial(cs.blockWords, cs.blockLen, pos, take), threw |-> FALSE]

\* pos: stream position of input[inputOffset]; addr: input.byteOffset + inputOffset.
RECURSIVE ChunkState_update(_, _, _, _)
ChunkState_update(cs, pos, addr, inputLen) ==
  IF inputLen <= 0 THEN [cs |-> cs, threw |-> FALSE]
  ELSE
    LET cs1 == IF cs.blockLen = BLOCK_LEN
               THEN [cs EXCEPT
                       !.chainingValue =
                          compress(cs.chainingValue, <<"blk", cs.blockWords>>,
                                   cs.chunkCounter, BLOCK_LEN,
                                   BitOr(cs.flags, startFlag(cs))),
                       !.blocksCompressed = @ + 1,
                       !.blockLen = 0]
               ELSE cs
        want == BLOCK_LEN - cs1.blockLen
        take == Min(want, inputLen)
        ld == loadBlock(cs1, pos, addr, take)
    IN IF ld.threw THEN [cs |-> cs1, threw |-> TRUE]
       ELSE ChunkState_update(
              [cs1 EXCEPT !.blockWords = ld.words, !.blockLen = @ + take],
              pos + take, addr + take, inputLen - take)

\* Mutant of the output of a chunk: a chunk without a byte in its block has
\* no CHUNK_START.
ChunkState_output_EmptyNoStart(cs) ==
  LET usedWords == (cs.blockLen + 3) \div 4
      padded == [i \in 1..16 |-> IF i - 1 >= usedWords THEN ZeroWord ELSE cs.blockWords[i]]
  IN [cs |-> [cs EXCEPT !.blockWords = padded],
      out |-> [inputCv |-> cs.chainingValue,
               blockWords |-> <<"blk", padded>>,
               blockLen |-> cs.blockLen,
               counter |-> cs.chunkCounter,
               flags |-> BitOr(BitOr(cs.flags, IF cs.blockLen = 0 THEN 0 ELSE startFlag(cs)),
                               CHUNK_END)]]

ChunkState_output(cs) ==
  LET usedWords == (cs.blockLen + 3) \div 4
      padded == [i \in 1..16 |-> IF i - 1 >= usedWords THEN ZeroWord ELSE cs.blockWords[i]]
  IN [cs |-> [cs EXCEPT !.blockWords = padded],
      out |-> [inputCv |-> cs.chainingValue,
               blockWords |-> <<"blk", padded>>,
               blockLen |-> cs.blockLen,
               counter |-> cs.chunkCounter,
               flags |-> BitOr(BitOr(cs.flags, startFlag(cs)), CHUNK_END)]]

\* Mutant of len(): the bytes of the block buffer are not counted.
ChunkState_len_BlocksOnly(cs) == cs.blocksCompressed * BLOCK_LEN

ChunkState_len(cs) == cs.blocksCompressed * BLOCK_LEN + cs.blockLen

(***************************************************************************)
(* class Hasher                                                            *)
(***************************************************************************)
Hasher(keyWords, flags) ==
  [chunkState |-> ChunkState(keyWords, 0, flags),
   keyWords |-> keyWords,
   cvStack |-> [i \in 1..MAX_DEPTH |-> Zero8],
   cvStackLen |-> 0,
   flags |-> flags]

\* pushCv: TypedArray.set throws a RangeError for an offset outside the array.
pushCv(h, cv) ==
  IF h.cvStackLen < 0 \/ h.cvStackLen >= MAX_DEPTH
  THEN [h |-> h, threw |-> TRUE]
  ELSE [h |-> [h EXCEPT !.cvStack[h.cvStackLen + 1] = cv, !.cvStackLen = @ + 1],
        threw |-> FALSE]

\* popCv into the left half of the parent block.  subarray with a negative
\* begin counts from the end of the array; subarray(-8, 0) is empty and the
\* set then writes nothing.
popCv(h, left) ==
  LET L == h.cvStackLen - 1
  IN [h |-> [h EXCEPT !.cvStackLen = L],
      left |-> IF L >= 0 THEN h.cvStack[L + 1]
               ELSE IF L = -1 \/ MAX_DEPTH + L < 0 THEN left
               ELSE h.cvStack[MAX_DEPTH + L + 1]]

\* A chunk count is a JavaScript number: here four 16-bit limbs, least
\* significant first.  Number(n) is the count n < 2^31.
Number(n) == <<n % 65536, (n \div 65536) % 65536, 0, 0>>

\* totalChunks & 1: ToInt32 keeps the low 32 bits of the count.
and1(totalChunks) == totalChunks[1] % 2

\* totalChunks >>> 1: ToUint32 keeps the low 32 bits of the count, which
\* are then shifted right by one.
ushr1(totalChunks) ==
  <<(totalChunks[1] \div 2) + (totalChunks[2] % 2) * 32768, totalChunks[2] \div 2, 0, 0>>

\* Mutant of the merge: the parent is compressed with PARENT alone.
mergeOnce_NoMode(h, left, newCv, totalChunks) ==
  LET p == popCv(h, left)
  IN [h |-> p.h, left |-> p.left,
      newCv |-> compress(h.keyWords, <<"par", p.left, newCv>>, 0, BLOCK_LEN, PARENT),
      totalChunks |-> ushr1(totalChunks)]

\* One iteration of the loop "while ((totalChunks & 1) === 0)" of addChunkCv.
mergeOnce(h, left, newCv, totalChunks) ==
  LET p == popCv(h, left)
  IN [h |-> p.h, left |-> p.left,
      newCv |-> compress(h.keyWords, <<"par", p.left, newCv>>, 0, BLOCK_LEN,
                         BitOr(h.flags, PARENT)),
      totalChunks |-> ushr1(totalChunks)]

\* Mutant of addChunkCv: the chunk CV is pushed without any merge.
addChunkCvLoop_NoMerge(h, left, newCv, totalChunks) == pushCv(h, newCv)

RECURSIVE addChunkCvLoop(_, _, _, _)
addChunkCvLoop(h, left, newCv, totalChunks) ==
  IF and1(totalChunks) = 0
  THEN LET s == mergeOnce(h, left, newCv, totalChunks)
       IN addChunkCvLoop(s.h, s.left, s.newCv, s.totalChunks)
  ELSE pushCv(h, newCv)

addChunkCv(h, newCv, totalChunks) == addChunkCvLoop(h, Zero8, newCv, totalChunks)

\* Mutant of the full-chunk branch: the new ChunkState keeps the counter.
finishChunk_SameCounter(h) ==
  LET o == ChunkState_output(h.chunkState)
      chunkCv == compress(o.out.inputCv, o.out.blockWords, o.out.counter,
                          o.out.blockLen, o.out.flags)
      totalChunks == h.chunkState.chunkCounter + 1
      a == addChunkCv([h EXCEPT !.chunkState = o.cs], chunkCv, Number(totalChunks))
  IN IF a.threw THEN a
     ELSE [h |-> [a.h EXCEPT !.chunkState =
                    ChunkState(h.keyWords, h.chunkState.chunkCounter, h.flags)],
           threw |-> FALSE]

\* The body of "if (this.chunkState.len() === CHUNK_LEN)" in Hasher.update.
finishChunk(h) ==
  LET o == ChunkState_output(h.chunkState)
      chunkCv == compress(o.out.inputCv, o.out.blockWords, o.out.counter,
                          o.out.blockLen, o.out.flags)
      totalChunks == h.chunkState.chunkCounter + 1
      a == addChunkCv([h EXCEPT !.chunkState = o.cs], chunkCv, Number(totalChunks))
  IN IF a.threw THEN a
     ELSE [h |-> [a.h EXCEPT !.chunkState = ChunkState(h.keyWords, totalChunks, h.flags)],
           threw |-> FALSE]

\* pos: stream position of input[inputOffset]; addr: input.byteOffset + inputOffset.
RECURSIVE Hasher_update(_, _, _, _)
Hasher_update(h, pos, addr, inputLen) ==
  IF inputLen <= 0 THEN [h |-> h, threw |-> FALSE]
  ELSE
    LET r1 == IF ChunkState_len(h.chunkState) = CHUNK_LEN
              THEN finishChunk(h)
              ELSE [h |-> h, threw |-> FALSE]
        want == CHUNK_LEN - ChunkState_len(r1.h.chunkState)
        take == Min(want, inputLen)
        u == ChunkState_update(r1.h.chunkState, pos, addr, take)
        h2 == [r1.h EXCEPT !.chunkState = u.cs]
    IN IF r1.threw THEN r1
       ELSE IF u.threw THEN [h |-> h2, threw |-> TRUE]
       ELSE Hasher_update(h2, pos + take, addr + take, inputLen - take)

\* The loop "while (this.cvStackLen > 0)" of finalizeOutput.
RECURSIVE finalizeMerge(_, _)
finalizeMerge(h, cv) ==
  LET L == h.cvStackLen - 1
      parentBlock == <<"par", h.cvStack[L + 1], cv>>
      h2 == [h EXCEPT !.cvStackLen = L]
  IN IF L > 0
     THEN finalizeMerge(h2, compress(h.keyWords, parentBlock, 0, BLOCK_LEN,
                                     BitOr(h.flags, PARENT)))
     ELSE [h |-> h2,
           out |-> [inputCv |-> h.keyWords, blockWords |-> parentBlock,
                    blockLen |-> BLOCK_LEN, counter |-> 0,
                    flags |-> BitOr(h.flags, PARENT)]]

finalizeOutput(h) ==
  LET o == ChunkState_output(h.chunkState)
      h1 == [h EXCEPT !.chunkState = o.cs]
  IN IF h1.cvStackLen > 0
     THEN finalizeMerge(h1, compress(o.out.inputCv, o.out.blockWords, o.out.counter,
                                     o.out.blockLen, o.out.flags))
     ELSE [h |-> h1, out |-> o.out]

(***************************************************************************)
(* class XofReader.  outputBlock is the counter its 16 words were          *)
(* generated with (-1: the zero words of the constructor).                 *)
(***************************************************************************)
\* Mutant of the constructor: the block offset starts at 0.
XofReader_OffsetZero(inputCv, blockWords, counter, blockLen, flags) ==
  [inputCv |-> inputCv, blockWords |-> blockWords, counter |-> counter,
   blockLen |-> blockLen, flags |-> BitOr(flags, ROOT),
   outputBlock |-> -1, outputBlockOffset |-> 0]

XofReader(inputCv, blockWords, counter, blockLen, flags) ==
  [inputCv |-> inputCv, blockWords |-> blockWords, counter |-> counter,
   blockLen |-> blockLen, flags |-> BitOr(flags, ROOT),
   outputBlock |-> -1, outputBlockOffset |-> 64]

\* Byte byteIdx of word wordIdx of an output block; words a compression did
\* not write (the upper 8 when fullOutput is false) are zero.
outWordByte(fullOutput, counter, wordIdx, byteIdx) ==
  IF counter < 0 \/ (~fullOutput /\ wordIdx >= 8) \/ wordIdx >= 16
  THEN -1
  ELSE OutByte(counter, wordIdx, byteIdx)

writeLittleEndianBytesPartial(outputBlock, wordOffset, byteCount) ==
  [k \in 1..byteCount |->
     outWordByte(TRUE, outputBlock, wordOffset + ((k - 1) \div 4), BitAnd(k - 1, 3))]

\* Mutant of the read loop: the word-at-a-time branch advances the block
\* offset by toCopy although it copied whole words only.
RECURSIVE XofReader_readLoop_SkipTail(_, _, _)
XofReader_readLoop_SkipTail(x, output, length) ==
  IF Len(output) >= length THEN [x |-> x, out |-> output]
  ELSE
    LET x1 == IF x.outputBlockOffset >= 64
              THEN [x EXCEPT !.outputBlock = x.counter, !.counter = @ + 1,
                             !.outputBlockOffset = 0]
              ELSE x
        available == 64 - x1.outputBlockOffset
        toCopy == Min(available, length - Len(output))
        wordOffset == x1.outputBlockOffset \div 4
        byteWithinWord == BitAnd(x1.outputBlockOffset, 3)
    IN IF byteWithinWord = 0 /\ toCopy >= 4
       THEN LET fullWords == toCopy \div 4
                bytesCopied == fullWords * 4
            IN XofReader_readLoop_SkipTail(
                 [x1 EXCEPT !.outputBlockOffset = @ + toCopy],
                 output \o writeLittleEndianBytesPartial(x1.outputBlock, wordOffset, bytesCopied),
                 length)
       ELSE XofReader_readLoop_SkipTail(
              [x1 EXCEPT !.outputBlockOffset = @ + toCopy],
              output \o [i \in 1..toCopy |->
                           outWordByte(TRUE, x1.outputBlock,
                                       (x1.outputBlockOffset + i - 1) \div 4,
                                       BitAnd(x1.outputBlockOffset + i - 1, 3))],
              length)

RECURSIVE XofReader_readLoop(_, _, _)
XofReader_readLoop(x, output, length) ==
  IF Len(output) >= length THEN [x |-> x, out |-> output]
  ELSE
    LET x1 == IF x.outputBlockOffset >= 64
              THEN [x EXCEPT !.outputBlock = x.counter, !.counter = @ + 1,
                             !.outputBlockOffset = 0]
              ELSE x
        available == 64 - x1.outputBlockOffset
        toCopy == Min(available, length - Len(output))
        wordOffset == x1.outputBlockOffset \div 4
        byteWithinWord == BitAnd(x1.outputBlockOffset, 3)
    IN IF byteWithinWord = 0 /\ toCopy >= 4
       THEN LET fullWords == toCopy \div 4
                bytesCopied == fullWords * 4
            IN XofReader_readLoop(
                 [x1 EXCEPT !.outputBlockOffset = @ + bytesCopied],
                 output \o writeLittleEndianBytesPartial(x1.outputBlock, wordOffset, bytesCopied),
                 length)
       ELSE XofReader_readLoop(
              [x1 EXCEPT !.outputBlockOffset = @ + toCopy],
              output \o [i \in 1..toCopy |->
                           outWordByte(TRUE, x1.outputBlock,
                                       (x1.outputBlockOffset + i - 1) \div 4,
                                       BitAnd(x1.outputBlockOffset + i - 1, 3))],
              length)

XofReader_read(x, length) == XofReader_readLoop(x, <<>>, length)

\* What an output stream is a function of: the arguments of the root
\* compression other than the counter.
SeedOf(inputCv, blockWords, blockLen, flags) == <<inputCv, blockWords, blockLen, flags>>

XofSeed(x) == SeedOf(x.inputCv, x.blockWords, x.blockLen, x.flags)

Hasher_finalizeXof(h) ==
  LET r == finalizeOutput(h)
  IN [h |-> r.h,
      xof |-> XofReader(r.out.inputCv, r.out.blockWords, r.out.counter,
                        r.out.blockLen, r.out.flags)]

Hasher_finalize(h, outputLength) ==
  LET r == finalizeOutput(h)
  IN IF outputLength <= 64
     THEN [h |-> r.h,
           out |-> [seed |-> SeedOf(r.out.inputCv, r.out.blockWords, r.out.blockLen,
                                    BitOr(r.out.flags, ROOT)),
                    bytes |-> [k \in 1..outputLength |->
                                 outWordByte(outputLength > 32, r.out.counter,
                                             (k - 1) \div 4, BitAnd(k - 1, 3))]]]
     ELSE LET f == Hasher_finalizeXof(r.h)
              full == XofReader_read(f.xof, outputLength)
          IN [h |-> f.h, out |-> [seed |-> XofSeed(f.xof), bytes |-> full.out]]

(***************************************************************************)
(* The streaming specification: one Hasher, fed the input stream by update *)
(* calls of chosen lengths from views at chosen byte offsets, finalized    *)
(* at chosen output lengths.  fed counts the bytes handed to update so     *)
(* far, ok records that no call has thrown, hist is the sequence of calls  *)
(* ("u" update, "f" finalize, "x" finalizeXof, "r" read) and last the      *)
(* latest call.  xof is the reader of the latest finalizeXof, xof0 that    *)
(* reader as constructed and xofOut the results of its read calls.         *)
(***************************************************************************)
UpdateLens == {0, 1, 64, 1023, 1024, 1025, 2049}
ByteOffsets == 0..3
FinalizeLens == {1, 32, 33, 64, 65, 130}

NoOut == [seed |-> <<"none">>, bytes |-> <<>>]
NoXof == XofReader(<<"none">>, <<"none">>, 0, 0, 0)

Count(tag) == Cardinality({i \in 1..Len(hist) : hist[i] = tag})

(***************************************************************************)
(* The one-shot API (hash.ts).  The module-level buffers are the record    *)
(* mod; a buffer is a sequence of 32-bit words.  A word is either four     *)
(* little-endian bytes, or word i of the result of a compression,          *)
(* <<"w", term, i>>.  An input is [len, off]: the first len bytes of the   *)
(* input stream, in a view at byteOffset off.                              *)
(***************************************************************************)
CvWord(t, i) == <<"w", t, i>>

IsCvWord(w) == Len(w) = 3

IVWords == [i \in 1..8 |-> CvWord(IV, i - 1)] \o <<>>

Zeros(n) == [i \in 1..n |-> ZeroWord] \o <<>>

\* The 8 words are the words 0..7, in order, of one compression result.
IsCv(ws) ==
  IsCvWord(ws[1]) /\ \A i \in 1..8 : IsCvWord(ws[i]) /\ ws[i][3] = i - 1 /\ ws[i][2] = ws[1][2]

\* The chaining value and the block that compress reads from word buffers.
PackCv(ws) == IF IsCv(ws) THEN ws[1][2] ELSE <<"words", ws>>

PackBlock(ws) ==
  IF \A i \in 1..16 : ~IsCvWord(ws[i]) THEN <<"blk", ws>>
  ELSE IF IsCv(SubSeq(ws, 1, 8)) /\ IsCv([i \in 1..8 |-> ws[i + 8]])
  THEN <<"par", ws[1][2], ws[9][2]>>
  ELSE <<"words", ws>>

\* compress(cv, cvOff, block, blockOff, out, outOff, fullOutput, counter,
\* blockLen, flags): the 8 (16 with fullOutput) words written to out.
compressWords(cv, block, counter, blockLen, flags, fullOutput) ==
  LET t == compress(PackCv(cv), PackBlock(block), counter, blockLen, flags)
  IN [i \in 1..(IF fullOutput THEN 16 ELSE 8) |-> CvWord(t, i - 1)] \o <<>>

\* Statements run in order: the value s is computed before e is evaluated.
After(s, e) == IF DOMAIN s = DOMAIN s THEN e ELSE e

\* dst.set(src, off) and the unrolled copies: src written at word off.
SetWords(dst, off, src) ==
  SubSeq(dst, 1, off) \o src \o SubSeq(dst, off + Len(src) + 1, Len(dst))

\* copyCV8(src, srcOff, dst, dstOff)
copyCV8(src, srcOff, dst, dstOff) ==
  SetWords(dst, dstOff, [i \in 1..8 |-> src[srcOff + i]])

CV_STACK_DEPTH == 64

ModuleInit ==
  [blockWords |-> Zeros(16),
   HYPER_CV_STACK |-> Zeros(CV_STACK_DEPTH * 8),
   simdAvailable |-> FALSE,
   simdChunkCvs |-> Zeros(32),
   reusableTempCv |-> Zeros(8),
   reusableChunkCv |-> Zeros(8),
   reusablePureParentBlock |-> Zeros(16),
   reusablePureParentCv |-> Zeros(8),
   reusableOffsets |-> <<0, 0, 0, 0>>,
   reusableCounters |-> <<0, 0, 0, 0>>,
   reusableBlockLens |-> <<0, 0, 0, 0>>,
   reusableFlags |-> <<0, 0, 0, 0>>,
   reusableOut8 |-> Zeros(8),
   batchChunkOffsets |-> <<0, 0, 0, 0>>,
   view32 |-> <<>>]

\* inputWords[k] of new Uint32Array(input.buffer, input.byteOffset,
\* inputLen >>> 2); a read past its end is undefined, stored as 0.
inputWordsAt(inp, k) == IF k < inp.len \div 4 THEN uint32View(0, k) ELSE ZeroWord

inputWordsBlock(inp, wordOff) ==
  [w \in 1..16 |-> inputWordsAt(inp, wordOff + w - 1)] \o <<>>

readLittleEndianWordsPartial(offset, length) ==
  LET fullWords == length \div 4
      remaining == BitAnd(length, 3)
  IN [i \in 1..16 |->
        IF i - 1 < fullWords THEN uint32View(offset, i - 1)
        ELSE IF i - 1 = fullWords /\ remaining > 0
        THEN <<InputByte(offset + 4 * fullWords),
               IF remaining > 1 THEN InputByte(offset + 4 * fullWords + 1) ELSE 0,
               IF remaining > 2 THEN InputByte(offset + 4 * fullWords + 2) ELSE 0,
               0>>
        ELSE ZeroWord] \o <<>>

\* The 16 compressions of the fast path of a full chunk, from block i on.
RECURSIVE fullChunkBlocks(_, _, _, _, _, _)
fullChunkBlocks(cv, inp, wordOff, chunkCounter, flags, i) ==
  After(cv,
  IF i >= 16 THEN cv
  ELSE fullChunkBlocks(
         compressWords(cv, inputWordsBlock(inp, wordOff), chunkCounter, BLOCK_LEN,
                       BitOr(flags, IF i = 0 THEN CHUNK_START
                                    ELSE IF i = 15 THEN CHUNK_END ELSE 0),
                       FALSE),
         inp, wordOff + 16, chunkCounter, flags, i + 1))

\* The block loop of the slower path of hashChunkWithWords, from blockIdx on.
RECURSIVE chunkBlocks(_, _, _, _, _, _, _, _)
chunkBlocks(m, inp, hasWords, inputOffset, inputLen, chunkCounter, flags, blockIdx) ==
  After(m,
  LET fullBlocks == inputLen \div 64
      remainder == BitAnd(inputLen, 63)
      totalBlocks == fullBlocks + (IF remainder > 0 THEN 1 ELSE 0)
      isFirst == blockIdx = 0
      isLast == blockIdx = totalBlocks - 1
      blockStart == blockIdx * 64
      blockLen == IF isLast /\ remainder > 0 THEN remainder ELSE BLOCK_LEN
      blockFlags == BitOr(BitOr(flags, IF isFirst THEN CHUNK_START ELSE 0),
                          IF isLast THEN CHUNK_END ELSE 0)
      chunkWordOffset == inputOffset \div 4
      viaView == ~(isLast /\ remainder > 0) /\ hasWords
                 /\ chunkWordOffset + (blockStart \div 4) + 16 <= inp.len \div 4
      block == IF isLast /\ remainder > 0
               THEN readLittleEndianWordsPartial(inputOffset + blockStart, blockLen)
               ELSE IF viaView
               THEN inputWordsBlock(inp, chunkWordOffset + (blockStart \div 4))
               ELSE readLittleEndianWordsFull(inputOffset + blockStart) \o <<>>
      cv == compressWords(m.reusableTempCv, block, chunkCounter, blockLen, blockFlags, FALSE)
  IN IF blockIdx >= totalBlocks THEN m
     ELSE chunkBlocks([m EXCEPT !.reusableTempCv = cv,
                                !.blockWords = IF viaView THEN @ ELSE block],
                      inp, hasWords, inputOffset, inputLen, chunkCounter, flags,
                      blockIdx + 1))

\* "Copy result to output" of hashChunkWithWords: out is reusableChunkCv.
storeChunkCv(m) == [m EXCEPT !.reusableChunkCv = SetWords(@, 0, m.reusableTempCv)]

\* hashChunkWithWords(input, inputWords, inputOffset, inputLen, chunkCounter,
\* flags, reusableChunkCv, 0); hasWords: inputWords is not null.
hashChunkWithWords(m, inp, hasWords, inputOffset, inputLen, chunkCounter, flags) ==
  LET remainder == BitAnd(inputLen, 63)
  IN IF hasWords /\ remainder = 0 /\ inputLen = CHUNK_LEN
     THEN LET cv == fullChunkBlocks(IVWords, inp, inputOffset \div 4,
                                    chunkCounter, flags, 0)
          IN [m EXCEPT !.reusableTempCv = cv,
                       !.reusableChunkCv = SetWords(@, 0, cv)]
     ELSE storeChunkCv(chunkBlocks([m EXCEPT !.reusableTempCv = IVWords], inp, hasWords,
                                   inputOffset, inputLen, chunkCounter, flags, 0))

\* The block loop of hashChunkRoot, from blockIdx on: [m, out].
RECURSIVE rootBlocks(_, _, _, _, _, _, _, _, _)
rootBlocks(m, inp, inputOffset, inputLen, chunkCounter, flags, out, fullOutput, blockIdx) ==
  After(m,
  LET fullBlocks == inputLen \div 64
      remainder == BitAnd(inputLen, 63)
      someBlocks == fullBlocks + (IF remainder > 0 THEN 1 ELSE 0)
      totalBlocks == IF someBlocks = 0 THEN 1 ELSE someBlocks
      hasWords == IS_LITTLE_ENDIAN /\ (inp.off + inputOffset) % 4 = 0 /\ inputLen >= 4
      isFirst == blockIdx = 0
      isLast == blockIdx = totalBlocks - 1
      blockStart == blockIdx * 64
      blockLen == IF isLast
                  THEN (IF remainder # 0 THEN remainder
                        ELSE IF inputLen > 0 THEN BLOCK_LEN ELSE 0)
                  ELSE BLOCK_LEN
      blockFlags == BitOr(BitOr(flags, IF isFirst THEN CHUNK_START ELSE 0),
                          IF isLast THEN BitOr(CHUNK_END, ROOT) ELSE 0)
      partial == isLast /\ remainder > 0
      viaView == ~partial /\ inputLen # 0 /\ hasWords
                 /\ (blockStart \div 4) + 16 <= inputLen \div 4
      block == IF partial
               THEN readLittleEndianWordsPartial(inputOffset + blockStart, blockLen)
               ELSE IF inputLen = 0 THEN Zeros(16)
               ELSE IF viaView
               THEN [w \in 1..16 |-> uint32View(inputOffset, (blockStart \div 4) + w - 1)] \o <<>>
               ELSE readLittleEndianWordsFull(inputOffset + blockStart) \o <<>>
      res == compressWords(m.reusableTempCv, block, chunkCounter, blockLen, blockFlags,
                           isLast /\ fullOutput)
      m1 == [m EXCEPT !.blockWords = IF viaView THEN @ ELSE block,
                      !.reusableTempCv = IF isLast THEN @ ELSE res]
  IN IF blockIdx >= totalBlocks THEN [m |-> m, out |-> out]
     ELSE rootBlocks(m1, inp, inputOffset, inputLen, chunkCounter, flags,
                     IF isLast THEN SetWords(out, 0, res) ELSE out,
                     fullOutput, blockIdx + 1))

\* Mutant of hashChunkRoot: reusableTempCv is used as the last call left it.
hashChunkRoot_StaleCv(m, inp, inputOffset, inputLen, chunkCounter, flags, out, fullOutput) ==
  rootBlocks(m, inp, inputOffset, inputLen, chunkCounter, flags, out, fullOutput, 0)

hashChunkRoot(m, inp, inputOffset, inputLen, chunkCounter, flags, out, fullOutput) ==
  rootBlocks([m EXCEPT !.reusableTempCv = IVWords], inp, inputOffset, inputLen,
             chunkCounter, flags, out, fullOutput, 0)

\* "outputLen === 32 ? reusableOut8 : new Uint32Array(outputLen > 32 ? 16 : 8)"
outBuffer(m, outputLen) ==
  IF outputLen = 32 THEN m.reusableOut8 ELSE Zeros(IF outputLen > 32 THEN 16 ELSE 8)

\* The module after a root compression wrote out.
withOut(m, outputLen, out) ==
  IF outputLen = 32 THEN [m EXCEPT !.reusableOut8 = out] ELSE m

\* Byte b of a word of an output buffer.
outByteOf(w, b) == IF IsCvWord(w) THEN OutByte(w[2][4], w[3], b) ELSE -1

\* The seed of the compression whose words the first outputLen bytes of out are.
outSeedOf(out, outputLen) ==
  IF \A i \in 1..((outputLen + 3) \div 4) : IsCvWord(out[i]) /\ out[i][2] = out[1][2]
  THEN SeedOf(out[1][2][2], out[1][2][3], out[1][2][5], out[1][2][6])
  ELSE <<"mixed">>

\* The result of a one-shot hash from its output buffer: reusableOut8View
\* .slice() for 32 bytes, else new Uint8Array(out.buffer, 0, outputLen),
\* a RangeError when the buffer has fewer than outputLen bytes.
resultBytes(m, out, outputLen) ==
  IF outputLen > 4 * Len(out)
  THEN [m |-> m, threw |-> TRUE, out |-> NoOut]
  ELSE [m |-> m, threw |-> FALSE,
        out |-> [seed |-> outSeedOf(out, outputLen),
                 bytes |-> [k \in 1..outputLen |->
                              outByteOf(out[((k - 1) \div 4) + 1], BitAnd(k - 1, 3))]]]

\* The return of a one-shot hash whose root compression left out.
resultOf(m, outputLen, out) == resultBytes(withOut(m, outputLen, out), out, outputLen)

\* The root compression writes its words res to the output buffer of the call.
rootResult(m, outputLen, res) ==
  resultOf(m, outputLen, SetWords(outBuffer(m, outputLen), 0, res))

\* The return of hashPureJS for a single chunk: r is what hashChunkRoot left.
chunkRootResult(r, outputLen) == resultOf(r.m, outputLen, r.out)

\* The merge loop of hashPureJS for the chunk that makes the chunk count
\* totalChunks, and the push that follows it: [m, stackLen].
\* Mutant of the merge loop: the merge is made for the last chunk too when
\* one entry is left on the stack.
RECURSIVE pureMerge_ToRoot(_, _, _, _)
pureMerge_ToRoot(a, newCv, totalChunks, isLastChunk) ==
  After(a,
  IF BitAnd(totalChunks, 1) = 0 /\ a.stackLen > 0
  THEN LET parentBlock == copyCV8(newCv, 0,
                            copyCV8(a.m.HYPER_CV_STACK, (a.stackLen - 1) * 8,
                                    a.m.reusablePureParentBlock, 0), 8)
           parentCv == compressWords(IVWords, parentBlock, 0, BLOCK_LEN, PARENT, FALSE)
       IN pureMerge_ToRoot([m |-> [a.m EXCEPT !.reusablePureParentBlock = parentBlock,
                                              !.reusablePureParentCv = parentCv],
                            stackLen |-> a.stackLen - 1],
                           parentCv, totalChunks \div 2, isLastChunk)
  ELSE [m |-> [a.m EXCEPT !.HYPER_CV_STACK = copyCV8(newCv, 0, @, a.stackLen * 8)],
        stackLen |-> a.stackLen + 1])

RECURSIVE pureMerge(_, _, _, _)
pureMerge(a, newCv, totalChunks, isLastChunk) ==
  After(a,
  IF BitAnd(totalChunks, 1) = 0 /\ a.stackLen > 0 /\ ~(a.stackLen = 1 /\ isLastChunk)
  THEN LET parentBlock == copyCV8(newCv, 0,
                            copyCV8(a.m.HYPER_CV_STACK, (a.stackLen - 1) * 8,
                                    a.m.reusablePureParentBlock, 0), 8)
           parentCv == compressWords(IVWords, parentBlock, 0, BLOCK_LEN, PARENT, FALSE)
       IN pureMerge([m |-> [a.m EXCEPT !.reusablePureParentBlock = parentBlock,
                                       !.reusablePureParentCv = parentCv],
                     stackLen |-> a.stackLen - 1],
                    parentCv, totalChunks \div 2, isLastChunk)
  ELSE [m |-> [a.m EXCEPT !.HYPER_CV_STACK = copyCV8(newCv, 0, @, a.stackLen * 8)],
        stackLen |-> a.stackLen + 1])

\* The merge loop for a chunk whose CV hashChunkWithWords left in
\* reusableChunkCv.
pureMergeChunkCv(a, totalChunks, isLastChunk) ==
  pureMerge(a, a.m.reusableChunkCv, totalChunks, isLastChunk)

\* The loop over the full chunks of the aligned path of hashPureJS.
RECURSIVE pureFullChunks(_, _, _)
pureFullChunks(a, inp, chunkIdx) ==
  After(a,
  LET fullChunks == inp.len \div 1024
      lastChunkLen == BitAnd(inp.len, 1023)
      chunkCv == fullChunkBlocks(IVWords, inp, chunkIdx * 256, chunkIdx, 0, 0)
      isLastChunk == chunkIdx = fullChunks - 1 /\ lastChunkLen = 0
  IN IF chunkIdx >= fullChunks THEN a
     ELSE pureFullChunks(pureMerge([a EXCEPT !.m.reusableChunkCv = chunkCv], chunkCv,
                                   chunkIdx + 1, isLastChunk),
                         inp, chunkIdx + 1))

\* The chunk loop of the slow path of hashPureJS.
RECURSIVE pureSlowChunks(_, _, _)
pureSlowChunks(a, inp, chunkIdx) ==
  After(a,
  LET numChunks == (inp.len + CHUNK_LEN - 1) \div CHUNK_LEN
      chunkStart == chunkIdx * CHUNK_LEN
      chunkLen == Min(CHUNK_LEN, inp.len - chunkStart)
  IN IF chunkIdx >= numChunks THEN a
     ELSE pureSlowChunks(
            pureMergeChunkCv([a EXCEPT !.m = hashChunkWithWords(@, inp, FALSE, chunkStart,
                                                                chunkLen, chunkIdx, 0)],
                             chunkIdx + 1, chunkIdx = numChunks - 1),
            inp, chunkIdx + 1))

\* "Finalize: merge remaining stack entries" of hashPureJS, and the single
\* entry case after it.
RECURSIVE pureFinalize(_, _)
pureFinalize(a, outputLen) ==
  After(a,
  IF a.stackLen > 1
  THEN LET parentBlock == copyCV8(a.m.HYPER_CV_STACK, (a.stackLen - 1) * 8,
                            copyCV8(a.m.HYPER_CV_STACK, (a.stackLen - 2) * 8,
                                    a.m.reusablePureParentBlock, 0), 8)
           m1 == [a.m EXCEPT !.reusablePureParentBlock = parentBlock]
       IN IF a.stackLen - 2 = 0
          THEN rootResult(m1, outputLen,
                          compressWords(IVWords, parentBlock, 0, BLOCK_LEN,
                                        BitOr(PARENT, ROOT), outputLen > 32))
          ELSE LET parentCv == compressWords(IVWords, parentBlock, 0, BLOCK_LEN,
                                             PARENT, FALSE)
               IN pureFinalize(
                    [m |-> [m1 EXCEPT !.reusablePureParentCv = parentCv,
                                      !.HYPER_CV_STACK =
                                         copyCV8(parentCv, 0, @, (a.stackLen - 2) * 8)],
                     stackLen |-> a.stackLen - 1],
                    outputLen)
  ELSE LET lastBlock == copyCV8(a.m.HYPER_CV_STACK, 0, Zeros(16), 0)
       IN rootResult([a.m EXCEPT !.blockWords = lastBlock], outputLen,
                     compressWords(IVWords, lastBlock, 0, BLOCK_LEN, ROOT,
                                   outputLen > 32)))

\* "Handle last partial chunk if any" of the aligned path of hashPureJS.
pureLastChunk(a, inp) ==
  LET fullChunks == inp.len \div 1024
      lastChunkLen == BitAnd(inp.len, 1023)
  IN IF lastChunkLen > 0
     THEN pureMergeChunkCv(
            [a EXCEPT !.m = hashChunkWithWords(@, inp, TRUE, fullChunks * CHUNK_LEN,
                                               lastChunkLen, fullChunks, 0)],
            fullChunks + 1, TRUE)
     ELSE a

\* hashPureJS(input, outputLen): [m, threw, out].
hashPureJS(m, inp, outputLen) ==
  LET numChunks == (inp.len + CHUNK_LEN - 1) \div CHUNK_LEN
      canUseFastPath == IS_LITTLE_ENDIAN /\ inp.off % 4 = 0
  IN IF inp.len = 0
     THEN rootResult([m EXCEPT !.blockWords = Zeros(16)], outputLen,
                     compressWords(IVWords, Zeros(16), 0, 0,
                                   BitOr(BitOr(CHUNK_START, CHUNK_END), ROOT),
                                   outputLen > 32))
     ELSE IF numChunks = 1
     THEN chunkRootResult(hashChunkRoot(m, inp, 0, inp.len, 0, 0,
                                        outBuffer(m, outputLen), outputLen > 32),
                          outputLen)
     ELSE IF canUseFastPath
     THEN pureFinalize(pureLastChunk(pureFullChunks([m |-> m, stackLen |-> 0], inp, 0),
                                     inp),
                       outputLen)
     ELSE pureFinalize(pureSlowChunks([m |-> m, stackLen |-> 0], inp, 0), outputLen)

(***************************************************************************)
(* The WASM SIMD module (wasm-simd.ts).  view32 is the Uint32Array over    *)
(* the WASM memory, up to the end of the arena; the kernels are what the   *)
(* generated code does with the words it loads and stores.                 *)
(***************************************************************************)
SIMD_MEMORY ==
  [BLOCK_WORDS |-> 0, CHAINING_VALUES |-> 512, OUTPUT |-> 640, COUNTER_LOW |-> 768,
   COUNTER_HIGH |-> 784, BLOCK_LEN |-> 800, FLAGS |-> 816, BATCH_BLOCK_WORDS |-> 832,
   BATCH_CV |-> 4928, BATCH_COUNTER_LOW |-> 5056, BATCH_FLAGS_BASE |-> 5072,
   BATCH_OUTPUT |-> 5088, CV_STACK |-> 5216, PARENT_BLOCK |-> 7264, CHUNK_CV |-> 7328,
   TEMP_CVS |-> 7360, END |-> 7488]

SIMD_CV_BASE == SIMD_MEMORY.CHAINING_VALUES \div 4
SIMD_OUT_BASE == SIMD_MEMORY.OUTPUT \div 4
SIMD_COUNTER_LOW_BASE == SIMD_MEMORY.COUNTER_LOW \div 4
SIMD_COUNTER_HIGH_BASE == SIMD_MEMORY.COUNTER_HIGH \div 4
SIMD_BLOCK_LEN_BASE == SIMD_MEMORY.BLOCK_LEN \div 4
SIMD_FLAGS_BASE == SIMD_MEMORY.FLAGS \div 4
BATCH_BASE == SIMD_MEMORY.BATCH_BLOCK_WORDS \div 4
BATCH_CV_BASE == SIMD_MEMORY.BATCH_CV \div 4
BATCH_COUNTER_LOW_BASE == SIMD_MEMORY.BATCH_COUNTER_LOW \div 4
BATCH_FLAGS_BASE_OFFSET == SIMD_MEMORY.BATCH_FLAGS_BASE \div 4
BATCH_OUTPUT_BASE == SIMD_MEMORY.BATCH_OUTPUT \div 4
ARENA_CV_STACK == SIMD_MEMORY.CV_STACK \div 4
ARENA_PARENT_BLOCK == SIMD_MEMORY.PARENT_BLOCK \div 4
ARENA_CHUNK_CV == SIMD_MEMORY.CHUNK_CV \div 4
ARENA_TEMP_CVS == SIMD_MEMORY.TEMP_CVS \div 4

\* A number as a 32-bit word, and back.
U32(n) == <<n % 256, (n \div 256) % 256, (n \div 65536) % 256, (n \div 16777216) % 256>>

NumOf(w) == w[1] + 256 * w[2] + 65536 * w[3] + 16777216 * w[4]

\* The words mem32[base + w * 4 + lane], w in 0..n-1, of one lane.
LaneWords(mem32, base, n, lane) == [w \in 1..n |-> mem32[base + (w - 1) * 4 + lane + 1]] \o <<>>

\* compress4x: four compressions, one per lane, on the single-block area.
runCompress4x(mem32) ==
  LET out(lane) ==
        compressWords(LaneWords(mem32, SIMD_CV_BASE, 8, lane),
                      LaneWords(mem32, 0, 16, lane),
                      NumOf(mem32[SIMD_COUNTER_LOW_BASE + lane + 1])
                        + NumOf(mem32[SIMD_COUNTER_HIGH_BASE + lane + 1]) * 65536 * 65536,
                      NumOf(mem32[SIMD_BLOCK_LEN_BASE + lane + 1]),
                      NumOf(mem32[SIMD_FLAGS_BASE + lane + 1]),
                      FALSE)
      outs == <<out(0), out(1), out(2), out(3)>>
      F(w, lane) == outs[lane + 1][w + 1]
  IN SetWords(mem32, SIMD_OUT_BASE, [i \in 1..32 |-> F((i - 1) \div 4, (i - 1) % 4)])

\* The loop of compressChunks4x for one lane, from block position pos on.
RECURSIVE batchLane(_, _, _, _)
batchLane(mem32, cv, lane, pos) ==
  After(cv,
  IF pos >= 16 THEN cv
  ELSE batchLane(mem32,
                 compressWords(cv, LaneWords(mem32, BATCH_BASE + pos * 64, 16, lane),
                               NumOf(mem32[BATCH_COUNTER_LOW_BASE + lane + 1]),
                               64,
                               BitOr(NumOf(mem32[BATCH_FLAGS_BASE_OFFSET + lane + 1]),
                                     BitOr(IF pos = 0 THEN 1 ELSE 0,
                                           IF pos = 15 THEN 2 ELSE 0)),
                               FALSE),
                 lane, pos + 1))

\* compressChunks4x: the 16 blocks of four full chunks, on the batch area.
runCompressChunks4x(mem32) ==
  LET outs == [lane \in 1..4 |->
                 batchLane(mem32, LaneWords(mem32, BATCH_CV_BASE, 8, lane - 1), lane - 1, 0)]
      F(w, lane) == outs[lane + 1][w + 1]
  IN SetWords(mem32, BATCH_OUTPUT_BASE, [i \in 1..32 |-> F((i - 1) \div 4, (i - 1) % 4)])

\* compressParent: PARENT_BLOCK compressed with the IV, counter 0, length
\* 64 and flags PARENT into CHUNK_CV.
runCompressParent(mem32) ==
  SetWords(mem32, ARENA_CHUNK_CV,
           compressWords(IVWords, [i \in 1..16 |-> mem32[ARENA_PARENT_BLOCK + i]],
                         0, 64, 4, FALSE))

\* initSimdSync: the memory of one page, zero, and the views over it.
initSimdSync(m) ==
  IF m.simdAvailable THEN m
  ELSE [m EXCEPT !.simdAvailable = TRUE, !.view32 = Zeros(SIMD_MEMORY.END \div 4)]

(***************************************************************************)
(* hashSimd and what it calls (hash.ts).                                   *)
(***************************************************************************)
\* Word w of the block of len bytes at offset off, as transposeBlocksToSimd
\* stores it for a lane.
transposedWord(inp, hasWords, off, len, w) ==
  IF len = 64
  THEN (IF hasWords /\ off % 4 = 0 THEN inputWordsAt(inp, (off \div 4) + w)
        ELSE uint32View(off, w))
  ELSE IF len = 0 THEN ZeroWord
  ELSE IF w * 4 >= len THEN ZeroWord
  ELSE IF w * 4 + 4 <= len THEN uint32View(off, w)
  ELSE [i \in 1..4 |-> IF i - 1 < len - w * 4 THEN InputByte(off + w * 4 + i - 1) ELSE 0] \o <<>>

transposeBlocksToSimd(inp, offsets, blockLens, mem32, blockCount, hasWords) ==
  LET allFull == blockCount = 4 /\ \A b \in 1..4 : blockLens[b] = 64
      F(w, b) ==
        IF allFull /\ hasWords /\ \A c \in 1..4 : offsets[c] % 4 = 0
        THEN inputWordsAt(inp, (offsets[b + 1] \div 4) + w)
        ELSE IF b < blockCount
        THEN transposedWord(inp, hasWords, offsets[b + 1], blockLens[b + 1], w)
        ELSE ZeroWord
  IN SetWords(mem32, 0, [i \in 1..64 |-> F((i - 1) \div 4, (i - 1) % 4)])

transposeBatchToSimd(inp, chunkOffsets, mem32, hasWords) ==
  LET F(pw, lane) ==
        IF hasWords /\ chunkOffsets[1] % 4 = 0
        THEN inputWordsAt(inp, (chunkOffsets[lane + 1] \div 4) + pw)
        ELSE uint32View(chunkOffsets[lane + 1], pw)
  IN SetWords(mem32, BATCH_BASE, [i \in 1..1024 |-> F((i - 1) \div 4, (i - 1) % 4)])

setupSimdCvs(cvs, mem32, count) ==
  LET F(w, c) == IF c < count THEN cvs[c * 8 + w + 1] ELSE ZeroWord
  IN SetWords(mem32, SIMD_CV_BASE, [i \in 1..32 |-> F((i - 1) \div 4, (i - 1) % 4)])

setupSimdParams(mem32, counters, blockLens, flagsArr, count) ==
  LET C(i) == IF i < count THEN U32(counters[i + 1]) ELSE ZeroWord
      H(i) == U32(0)
      L(i) == IF i < count THEN U32(blockLens[i + 1]) ELSE ZeroWord
      G(i) == IF i < count THEN U32(flagsArr[i + 1]) ELSE ZeroWord
  IN SetWords(SetWords(SetWords(SetWords(mem32, SIMD_COUNTER_LOW_BASE,
                                         [i \in 1..4 |-> C(i - 1)]),
                                SIMD_COUNTER_HIGH_BASE, [i \in 1..4 |-> H(i - 1)]),
                       SIMD_BLOCK_LEN_BASE, [i \in 1..4 |-> L(i - 1)]),
              SIMD_FLAGS_BASE, [i \in 1..4 |-> G(i - 1)])

readSimdOutputCvs(mem32, outputCvs, count) ==
  [i \in 1..Len(outputCvs) |->
     IF (i - 1) \div 8 < count
     THEN mem32[SIMD_OUT_BASE + ((i - 1) % 8) * 4 + ((i - 1) \div 8) + 1]
     ELSE outputCvs[i]] \o <<>>

\* The parameters of lane g of the block position blockIdx of the group
\* that starts at chunk chunkIdx (the "for g" loop of the standard path).
laneChunkLen(inp, thisChunkIdx) == Min(CHUNK_LEN, inp.len - thisChunkIdx * CHUNK_LEN)

laneBlockLen(inp, thisChunkIdx, blockIdx) ==
  LET chunkLen == laneChunkLen(inp, thisChunkIdx)
      blockStartInChunk == blockIdx * BLOCK_LEN
  IN IF blockStartInChunk >= chunkLen THEN 0
     ELSE IF blockStartInChunk + BLOCK_LEN > chunkLen THEN chunkLen - blockStartInChunk
     ELSE BLOCK_LEN

\* Mutant of the lane flags: the last block of a chunk is not flagged CHUNK_END.
laneFlags_NoChunkEnd(inp, thisChunkIdx, blockIdx) ==
  BitOr(IF blockIdx = 0 THEN CHUNK_START ELSE 0, 0)

laneFlags(inp, thisChunkIdx, blockIdx) ==
  LET chunkLen == laneChunkLen(inp, thisChunkIdx)
      blocks == (chunkLen + BLOCK_LEN - 1) \div BLOCK_LEN
      totalBlocksInChunk == IF blocks = 0 THEN 1 ELSE blocks
  IN BitOr(IF blockIdx = 0 THEN CHUNK_START ELSE 0,
           IF blockIdx = totalBlocksInChunk - 1 THEN CHUNK_END ELSE 0)

\* The "for g" loop of a block position of the standard path: the offsets,
\* counters, block lengths and flags of the lanes of the group.
simdLaneParams(m, inp, chunkIdx, groupSize, blockIdx) ==
  LET lanes == 1..groupSize
  IN [m EXCEPT
        !.reusableOffsets =
           [g \in 1..4 |-> IF g \in lanes
                           THEN (chunkIdx + g - 1) * CHUNK_LEN + blockIdx * BLOCK_LEN
                           ELSE @[g]],
        !.reusableCounters =
           [g \in 1..4 |-> IF g \in lanes THEN chunkIdx + g - 1 ELSE @[g]],
        !.reusableBlockLens =
           [g \in 1..4 |-> IF g \in lanes
                           THEN laneBlockLen(inp, chunkIdx + g - 1, blockIdx)
                           ELSE @[g]],
        !.reusableFlags =
           [g \in 1..4 |-> IF g \in lanes
                           THEN laneFlags(inp, chunkIdx + g - 1, blockIdx)
                           ELSE @[g]]]

\* transposeBlocksToSimd, setupSimdCvs, setupSimdParams and runCompress4x of
\* a block position.
simdCompress(m, inp, hasWords, groupSize) ==
  [m EXCEPT !.view32 =
     runCompress4x(
       setupSimdParams(
         setupSimdCvs([i \in 1..32 |-> m.view32[ARENA_TEMP_CVS + i]],
                      transposeBlocksToSimd(inp, m.reusableOffsets, m.reusableBlockLens,
                                            m.view32, groupSize, hasWords),
                      groupSize),
         m.reusableCounters, m.reusableBlockLens, m.reusableFlags, groupSize))]

\* readSimdOutputCvs and "Update CVs for next block (only for lanes that
\* processed data)".
simdStoreCvs(m, groupSize) ==
  LET cvs == readSimdOutputCvs(m.view32, m.simdChunkCvs, groupSize)
  IN [m EXCEPT !.simdChunkCvs = cvs,
               !.view32 = SetWords(m.view32, ARENA_TEMP_CVS,
                                   [i \in 1..(8 * groupSize) |->
                                      IF m.reusableBlockLens[((i - 1) \div 8) + 1] # 0
                                      THEN cvs[i]
                                      ELSE m.view32[ARENA_TEMP_CVS + i]])]

\* A block position of the standard path, once the lane parameters are set:
\* skipped when no lane has data.
simdBlockStep(m, inp, hasWords, groupSize) ==
  IF \A g \in 1..4 : m.reusableBlockLens[g] = 0 THEN m
  ELSE simdStoreCvs(simdCompress(m, inp, hasWords, groupSize), groupSize)

\* The block loop of the standard path of hashSimd, from blockIdx on.
RECURSIVE simdBlocks(_, _, _, _, _, _)
simdBlocks(m, inp, hasWords, chunkIdx, groupSize, blockIdx) ==
  After(m,
  IF blockIdx >= 16 THEN m
  ELSE simdBlocks(simdBlockStep(simdLaneParams(m, inp, chunkIdx, groupSize, blockIdx),
                                inp, hasWords, groupSize),
                  inp, hasWords, chunkIdx, groupSize, blockIdx + 1))

\* The batch fast path of hashSimd for the four full chunks from chunkIdx.
simdBatch(m, inp, hasWords, chunkIdx) ==
  LET offs == [g \in 1..4 |-> (chunkIdx + g - 1) * CHUNK_LEN]
      v1 == transposeBatchToSimd(inp, offs, m.view32, hasWords)
      IVF(w, lane) == IVWords[w + 1]
      v2 == SetWords(v1, BATCH_CV_BASE, [i \in 1..32 |-> IVF((i - 1) \div 4, (i - 1) % 4)])
      v3 == SetWords(v2, BATCH_COUNTER_LOW_BASE, [g \in 1..4 |-> U32(chunkIdx + g - 1)])
      v4 == SetWords(v3, BATCH_FLAGS_BASE_OFFSET, [g \in 1..4 |-> U32(0)])
      v5 == runCompressChunks4x(v4)
      v6 == SetWords(v5, ARENA_TEMP_CVS,
                     [i \in 1..32 |->
                        v5[BATCH_OUTPUT_BASE + ((i - 1) % 8) * 4 + ((i - 1) \div 8) + 1]])
  IN [m EXCEPT !.batchChunkOffsets = offs, !.view32 = v6]

\* The merge loop of hashSimd for the chunk that makes the chunk count
\* totalChunks, and the push that follows it: [m, stackLen].  newCvBase is a
\* word index of view32: a CV of arena.tempCvs, or arena.chunkCv.
RECURSIVE simdMerge(_, _, _, _)
simdMerge(a, newCvBase, totalChunks, isLastChunk) ==
  After(a,
  IF BitAnd(totalChunks, 1) = 0 /\ a.stackLen > 0 /\ ~(a.stackLen = 1 /\ isLastChunk)
  THEN LET v1 == copyCV8(a.m.view32, ARENA_CV_STACK + (a.stackLen - 1) * 8,
                         a.m.view32, ARENA_PARENT_BLOCK)
           v2 == copyCV8(v1, newCvBase, v1, ARENA_PARENT_BLOCK + 8)
       IN simdMerge([m |-> [a.m EXCEPT !.view32 = runCompressParent(v2)],
                     stackLen |-> a.stackLen - 1],
                    ARENA_CHUNK_CV, totalChunks \div 2, isLastChunk)
  ELSE [m |-> [a.m EXCEPT !.view32 =
                 copyCV8(@, newCvBase, @, ARENA_CV_STACK + a.stackLen * 8)],
        stackLen |-> a.stackLen + 1])

\* "Merge each chunk's CV into the Merkle tree": the loop over the group.
RECURSIVE simdMergeGroup(_, _, _, _, _)
simdMergeGroup(a, chunkIdx, groupSize, numChunks, g) ==
  After(a,
  IF g >= groupSize THEN a
  ELSE simdMergeGroup(simdMerge(a, ARENA_TEMP_CVS + g * 8, chunkIdx + g + 1,
                                chunkIdx + g = numChunks - 1),
                      chunkIdx, groupSize, numChunks, g + 1))

\* "Initialize CVs to IV" of the standard path.
simdInitCvs(m, groupSize) ==
  [m EXCEPT !.view32 = SetWords(@, ARENA_TEMP_CVS,
                                [i \in 1..(8 * groupSize) |-> IVWords[((i - 1) % 8) + 1]])]

\* "Process chunks in groups of 4": the while loop of hashSimd.
RECURSIVE simdGroups(_, _, _, _)
simdGroups(a, inp, hasWords, chunkIdx) ==
  After(a,
  LET numChunks == (inp.len + CHUNK_LEN - 1) \div CHUNK_LEN
      numFullChunks == inp.len \div 1024
      groupSize == Min(4, numChunks - chunkIdx)
      canUseBatchPath == groupSize = 4 /\ chunkIdx + 4 <= numFullChunks
  IN IF chunkIdx >= numChunks THEN a
     ELSE simdGroups(
            simdMergeGroup(
              [a EXCEPT !.m = IF canUseBatchPath THEN simdBatch(@, inp, hasWords, chunkIdx)
                              ELSE simdBlocks(simdInitCvs(@, groupSize), inp, hasWords,
                                              chunkIdx, groupSize, 0)],
              chunkIdx, groupSize, numChunks, 0),
            inp, hasWords, chunkIdx + groupSize))

\* "Copy result back to stack": CHUNK_CV to the stack entry n.
storeParentCv(mem32, n) == copyCV8(mem32, ARENA_CHUNK_CV, mem32, ARENA_CV_STACK + n * 8)

\* "Finalize: merge remaining stack entries" of hashSimd, and what follows.
RECURSIVE simdFinalize(_, _, _)
simdFinalize(a, inp, outputLen) ==
  After(a,
  IF a.stackLen > 1
  THEN LET v1 == copyCV8(a.m.view32, ARENA_CV_STACK + (a.stackLen - 2) * 8,
                         a.m.view32, ARENA_PARENT_BLOCK)
           v2 == copyCV8(v1, ARENA_CV_STACK + (a.stackLen - 1) * 8,
                         v1, ARENA_PARENT_BLOCK + 8)
       IN IF a.stackLen - 2 = 0
          THEN rootResult([a.m EXCEPT !.view32 = v2], outputLen,
                          compressWords(IVWords,
                                        [i \in 1..16 |-> v2[ARENA_PARENT_BLOCK + i]],
                                        0, BLOCK_LEN, BitOr(PARENT, ROOT),
                                        outputLen > 32))
          ELSE simdFinalize(
                 [m |-> [a.m EXCEPT !.view32 =
                           storeParentCv(runCompressParent(v2), a.stackLen - 2)],
                  stackLen |-> a.stackLen - 1],
                 inp, outputLen)
  ELSE IF a.stackLen = 1
  THEN LET block == copyCV8(a.m.view32, ARENA_CV_STACK, Zeros(16), 0)
       IN rootResult([a.m EXCEPT !.blockWords = block], outputLen,
                     compressWords(IVWords, block, 0, BLOCK_LEN, ROOT, outputLen > 32))
  ELSE hashPureJS(a.m, inp, outputLen))

\* hashSimd(input, outputLen): [m, threw, out].  The arena views exist
\* whenever the memory views do (initSimdSync sets up both).
hashSimd(m, inp, outputLen) ==
  LET numChunks == (inp.len + CHUNK_LEN - 1) \div CHUNK_LEN
      hasWords == IS_LITTLE_ENDIAN /\ inp.off % 4 = 0
  IN IF ~m.simdAvailable \/ numChunks < 4 THEN hashPureJS(m, inp, outputLen)
     ELSE simdFinalize(simdGroups([m |-> m, stackLen |-> 0], inp, hasWords, 0),
                       inp, outputLen)

SIMD_THRESHOLD == 4 * CHUNK_LEN

\* hash(input, outputLength); supported: WebAssembly SIMD validates and
\* instantiates on this engine (isSimdSupported, initSimdSync).
hash(m, inp, outputLength, supported) ==
  IF inp.len >= SIMD_THRESHOLD /\ (m.simdAvailable \/ supported)
  THEN hashSimd(initSimdSync(m), inp, outputLength)
  ELSE hashPureJS(m, inp, outputLength)

NoCall == [len |-> 0, off |-> 0, outLen |-> 0, simd |-> FALSE, threw |-> FALSE,
           out |-> NoOut]


Init ==
  /\ hasher = Hasher(IV, 0)
  /\ fed = 0
  /\ ok = TRUE
  /\ hist = <<>>
  /\ last = [op |-> "new", n |-> 0, off |-> 0, threw |-> FALSE, out |-> NoOut]
  /\ xof = NoXof
  /\ xof0 = NoXof
  /\ xofOut = <<>>
  /\ mod = ModuleInit
  /\ call = NoCall

DoUpdate(len, off) ==
  LET r == Hasher_update(hasher, fed, off, len)
  IN /\ hasher' = r.h
     /\ fed' = fed + len
     /\ ok' = (ok /\ ~r.threw)
     /\ hist' = Append(hist, "u")
     /\ last' = [op |-> "update", n |-> len, off |-> off, threw |-> r.threw, out |-> NoOut]
     /\ UNCHANGED <<xof, xof0, xofOut, mod, call>>

DoFinalize(n) ==
  LET r == Hasher_finalize(hasher, n)
  IN /\ hasher' = r.h
     /\ hist' = Append(hist, "f")
     /\ last' = [op |-> "finalize", n |-> n, off |-> 0, threw |-> FALSE, out |-> r.out]
     /\ UNCHANGED <<fed, ok, xof, xof0, xofOut, mod, call>>

DoFinalizeXof ==
  LET r == Hasher_finalizeXof(hasher)
  IN /\ hasher' = r.h
     /\ hist' = Append(hist, "x")
     /\ last' = [op |-> "finalizeXof", n |-> 0, off |-> 0, threw |-> FALSE, out |-> NoOut]
     /\ xof' = r.xof
     /\ xof0' = r.xof
     /\ xofOut' = <<>>
     /\ UNCHANGED <<fed, ok, mod, call>>

DoRead(n) ==
  LET r == XofReader_read(xof, n)
  IN /\ xof' = r.x
     /\ xofOut' = Append(xofOut, r.out)
     /\ hist' = Append(hist, "r")
     /\ last' = [op |-> "read", n |-> n, off |-> 0, threw |-> FALSE,
                 out |-> [seed |-> XofSeed(xof), bytes |-> r.out]]
     /\ UNCHANGED <<hasher, fed, ok, xof0, mod, call>>

Update ==
  /\ Count("u") < MaxUpdates
  /\ \E len \in UpdateLens, off \in ByteOffsets : DoUpdate(len, off)

Finalize ==
  /\ Count("f") + Count("x") < MaxFinalizes
  /\ \E n \in FinalizeLens : DoFinalize(n)

FinalizeXof ==
  /\ Count("f") + Count("x") < MaxFinalizes
  /\ DoFinalizeXof

Next == Update \/ Finalize \/ FinalizeXof

Spec == Init /\ [][Next]_vars

(***************************************************************************)
(* Reference values: a fresh Hasher fed the first T bytes of the stream    *)
(* in a single update from a 4-byte aligned view.                          *)
(***************************************************************************)
FreshFed(T) == Hasher_update(Hasher(IV, 0), 0, 0, T).h

FreshDigest(T, n) == Hasher_finalize(FreshFed(T), n).out

FreshXofRead(T, n) ==
  LET f == Hasher_finalizeXof(FreshFed(T))
  IN [seed |-> XofSeed(f.xof), bytes |-> XofReader_read(f.xof, n).out]

FirstFinalization == Count("f") + Count("x") = 1

\* C1: whatever the split X = A || B, update(A).update(B).finalize(32) on a
\* new Hasher completes and equals update(X).finalize(32) on a new Hasher.
C1_SplitEqualsWhole ==
  hist = <<"u", "u">> =>
    /\ ok
    /\ Hasher_finalize(hasher, 32).out = FreshDigest(fed, 32)

\* C2: the first finalize(N) of a hasher fed X returns the first N bytes of
\* finalizeXof().read(N) of a fresh hasher fed the same X.
C2_FinalizeIsXofPrefix ==
  (last.op = "finalize" /\ FirstFinalization /\ ok) =>
    last.out = FreshXofRead(fed, last.n)

\* C3: finalize(n) and finalizeXof() leave the CV stack, its length, the
\* chunk counter and the buffered chunk bytes of the Hasher unchanged.
C3_FinalizeReadOnly ==
  [][(hist' = Append(hist, "f") \/ hist' = Append(hist, "x")) =>
       /\ hasher'.cvStack = hasher.cvStack
       /\ hasher'.cvStackLen = hasher.cvStackLen
       /\ hasher'.chunkState.chunkCounter = hasher.chunkState.chunkCounter
       /\ ChunkState_len(hasher'.chunkState) = ChunkState_len(hasher.chunkState)
       /\ ChunkState_output(hasher'.chunkState).out = ChunkState_output(hasher.chunkState).out
       /\ Hasher_finalize(hasher', 32).out = Hasher_finalize(hasher, 32).out]_vars

\* C4: after update(A); finalize(); update(B) the next finalize() completes
\* and returns the digest of a fresh Hasher fed A || B.
C4_UpdateAfterFinalize ==
  (hist = <<"u", "f", "u", "f">> /\ last.n = 32) =>
    /\ ok
    /\ last.out = FreshDigest(fed, 32)

\* C5: no update and no finalize call throws, whatever the hasher state,
\* the length of the input and the byte offset of the view.
C5_NeverThrows == ~last.threw

(***************************************************************************)
(* The reader specification: a Hasher is fed one input, possibly finalized *)
(* once, then finalizeXof is called and its reader is read in pieces.      *)
(***************************************************************************)
XofInputLens == {0, 1, 1024, 1025, 2049}
ReadLens == {0, 1, 3, 4, 5, 63, 64, 65, 130}

XofUpdate ==
  /\ hist = <<>>
  /\ \E len \in XofInputLens : DoUpdate(len, 0)

XofFinalize ==
  /\ Count("f") = 0 /\ Count("x") = 0
  /\ DoFinalize(OUT_LEN)

XofFinalizeXof ==
  /\ Count("x") = 0
  /\ DoFinalizeXof

XofRead ==
  /\ Count("x") = 1
  /\ Len(xofOut) < MaxReads
  /\ \E n \in ReadLens : DoRead(n)

NextXof == XofUpdate \/ XofFinalize \/ XofFinalizeXof \/ XofRead

SpecXof == Init /\ [][NextXof]_vars

RECURSIVE Flatten(_)
Flatten(ss) == IF ss = <<>> THEN <<>> ELSE Head(ss) \o Flatten(Tail(ss))

\* C9: read(N1) followed by read(N2) returns, concatenated, what a single
\* read(N1 + N2) returns on another reader constructed from the same seed.
C9_ReadIsStream ==
  Len(xofOut) = 2 =>
    xofOut[1] \o xofOut[2] = XofReader_read(xof0, Len(xofOut[1]) + Len(xofOut[2])).out

C9_Witness ==
  /\ Len(xofOut) = 2
  /\ Len(xofOut[1]) % 4 # 0
  /\ Len(xofOut[1]) + Len(xofOut[2]) > 64
  /\ Len(xofOut[2]) % 64 # 0

\* C10: byte o of a reader's output is byte (o mod 64) of the 16-word output
\* of compressing the root seed of the hasher's input with ROOT and counter
\* floor(o / 64), however the reads were sized; the first block has counter 0.
C10_ByteAtOffset ==
  (Count("x") = 1 /\ ok) =>
    /\ XofSeed(xof) = FreshXofRead(fed, 0).seed
    /\ \A o \in 0..(Len(Flatten(xofOut)) - 1) :
         Flatten(xofOut)[o + 1] = OutByte(o \div 64, (o % 64) \div 4, o % 4)

(***************************************************************************)
(* The one-shot specification: some calls of hash that leave the module    *)
(* buffers as they leave them, then the call that is looked at.  call is   *)
(* the latest call of hash: its input, its output length, whether it took  *)
(* the SIMD path, and its result.                                          *)
(***************************************************************************)
MaxWarmups == 1

HashLens == {0, 1, 64, 65, 1024, 1025, 2048, 3073, 4096, 4097, 5120, 6244, 7169, 8191, 8192}
HashOffsets == {0, 1}
HashOutLens == {1, 32, 33, 64, 65}
WarmInputs == {<<8191, 0, 32>>, <<3073, 1, 64>>}

DoHash(len, off, outLen, supported, tag) ==
  \E r \in {hash(mod, [len |-> len, off |-> off], outLen, supported)} :
    /\ mod' = r.m
    /\ call' = [len |-> len, off |-> off, outLen |-> outLen,
                simd |-> len >= SIMD_THRESHOLD /\ r.m.simdAvailable,
                threw |-> r.threw, out |-> r.out]
    /\ hist' = Append(hist, tag)
    /\ UNCHANGED <<hasher, fed, ok, last, xof, xof0, xofOut>>

HashWarmup ==
  /\ Count("h") = 0
  /\ Count("w") < MaxWarmups
  /\ \E i \in WarmInputs, supported \in BOOLEAN : DoHash(i[1], i[2], i[3], supported, "w")

Hash ==
  /\ Count("h") = 0
  /\ \E len \in HashLens, off \in HashOffsets, outLen \in HashOutLens, supported \in BOOLEAN :
       DoHash(len, off, outLen, supported, "h")

NextHash == HashWarmup \/ Hash

SpecHash == Init /\ [][NextHash]_vars

\* The streaming hash of the input of the latest call, fed in one update
\* from a view at the same byteOffset.
StreamingOfCall == Hasher_update(Hasher(IV, 0), 0, call.off, call.len)

\* C6: for every input X, hash(X) returns the same 32 bytes as
\* new Hasher().update(X).finalize(32), which completes.
C6_HashEqualsStreaming ==
  (Count("h") = 1 /\ call.outLen = 32) =>
    /\ ~call.threw
    /\ ~StreamingOfCall.threw
    /\ call.out = Hasher_finalize(StreamingOfCall.h, 32).out

\* C7: hash(input, outputLength) returns exactly outputLength bytes, the
\* first outputLength bytes of the XOF output stream of the input, for every
\* outputLength >= 1.
C7_HashIsXofPrefix ==
  Count("h") = 1 =>
    /\ ~call.threw
    /\ Len(call.out.bytes) = call.outLen
    /\ call.out = FreshXofRead(call.len, call.outLen)

\* What hashPureJS returns for the input and output length of the latest call.
ScalarOfCall == hashPureJS(mod, [len |-> call.len, off |-> call.off], call.outLen)

\* C8: for every input of at least 4096 bytes the SIMD path compresses, per
\* chunk, the same blocks with the same chunk counter, block length and
\* flags, and merges the same parents, as hashPureJS: the root compression
\* of both has the same arguments and both return the same bytes.
C8_SimdEqualsScalar ==
  (hist # <<>> /\ call.simd) =>
    /\ call.len >= 4096
    /\ call.threw = ScalarOfCall.threw
    /\ call.out.seed = ScalarOfCall.out.seed
    /\ call.out = ScalarOfCall.out

\* A SIMD call after another call has used the module buffers, on an
\* unaligned input with a batched group and a trailing group whose last
\* chunk is partial, that returned a digest.
C8_Witness ==
  /\ Count("w") = 1
  /\ Count("h") = 1
  /\ call.simd
  /\ ~call.threw
  /\ call.len > 4 * CHUNK_LEN
  /\ call.len % CHUNK_LEN # 0
  /\ call.off % 4 # 0
  /\ call.outLen = 32

(***************************************************************************)
(* The constructors Hasher.newKeyed and Hasher.newDeriveKey.  A key is a   *)
(* view of keyLen bytes at byteOffset keyOff of its buffer; byte i of key  *)
(* k is KeyByte(k, i).  A context string is given by its UTF-8 encoding:   *)
(* the first ctxLen bytes of the input stream.                             *)
(***************************************************************************)
KeyByte(k, i) == (k * 97 + i * 5 + 1) % 256

\* The words a Uint32Array view over the key's bytes holds on a
\* little-endian host.
keyView(k) ==
  [i \in 1..8 |-> <<KeyByte(k, 4 * (i - 1)), KeyByte(k, 4 * (i - 1) + 1),
                    KeyByte(k, 4 * (i - 1) + 2), KeyByte(k, 4 * (i - 1) + 3)>>]

\* key[off] | (key[off + 1] << 8) | (key[off + 2] << 16) | (key[off + 3] << 24)
keyWordsBytewise(k) ==
  [i \in 1..8 |-> [b \in 1..4 |-> KeyByte(k, 4 * (i - 1) + b - 1)] \o <<>>]

\* threw: the Error of the length test, or the RangeError of
\* new Uint32Array(key.buffer, key.byteOffset, 8) for a byteOffset that is
\* no multiple of 4.  created: a Hasher was constructed.
Hasher_newKeyed(k, keyLen, keyOff) ==
  IF keyLen # KEY_LEN
  THEN [created |-> FALSE, threw |-> TRUE, h |-> Hasher(IV, 0)]
  ELSE IF IS_LITTLE_ENDIAN
  THEN IF keyOff % 4 # 0
       THEN [created |-> FALSE, threw |-> TRUE, h |-> Hasher(IV, 0)]
       ELSE [created |-> TRUE, threw |-> FALSE,
             h |-> Hasher(PackCv(keyView(k)), KEYED_HASH)]
  ELSE [created |-> TRUE, threw |-> FALSE,
        h |-> Hasher(PackCv(keyWordsBytewise(k)), KEYED_HASH)]

createKeyed(k, keyLen, keyOff) == Hasher_newKeyed(k, keyLen, keyOff)

MaxKeyUpdates == 2
MaxKeyFinalizes == 1
Keys == {0, 1}
KeyLens == {0, 31, 32, 33}
KeyOffsets == 0..4
KeyUpdateLens == {0, 1, 64, 1024, 1025, 3072, 7169}
KeyFinalizeLens == {32, 64}

NewKeyed ==
  /\ hist = <<>>
  /\ \E k \in Keys, keyLen \in KeyLens, keyOff \in KeyOffsets :
       \E r \in {createKeyed(k, keyLen, keyOff)} :
         /\ hasher' = IF r.created THEN r.h ELSE hasher
         /\ call' = [op |-> "newKeyed", key |-> k, len |-> keyLen, off |-> keyOff,
                     created |-> r.created, threw |-> r.threw]
         /\ hist' = <<"k">>
         /\ UNCHANGED <<fed, ok, last, xof, xof0, xofOut, mod>>

KeyUpdate ==
  /\ hist # <<>>
  /\ call.created
  /\ Count("u") < MaxKeyUpdates
  /\ Count("f") = 0
  /\ \E len \in KeyUpdateLens : DoUpdate(len, 0)

KeyFinalize ==
  /\ hist # <<>>
  /\ call.created
  /\ Count("f") < MaxKeyFinalizes
  /\ \E n \in KeyFinalizeLens : DoFinalize(n)

\* The little-endian 32-bit words of the 32 bytes of key k.
LittleEndianKeyWords(k) ==
  <<"words", [i \in 1..8 |-> [b \in 1..4 |-> KeyByte(k, 4 * (i - 1) + b - 1)] \o <<>>] \o <<>>>>

\* C11: newKeyed throws and creates no hasher when key.length is not 32; for
\* every 32-byte key, at any byteOffset of its buffer, it returns a Hasher
\* whose key words are the key's little-endian words and whose mode flag is
\* KEYED_HASH.
C11_NewKeyed ==
  (hist = <<"k">>) =>
    IF call.len # KEY_LEN
    THEN call.threw /\ ~call.created /\ hasher = Hasher(IV, 0)
    ELSE /\ ~call.threw
         /\ call.created
         /\ hasher.keyWords = LittleEndianKeyWords(call.key)
         /\ hasher.flags = KEYED_HASH
         /\ hasher.chunkState.chainingValue = hasher.keyWords

\* encodeUTF8(context): a new Uint8Array (byteOffset 0) that holds the
\* encoding, here the first ctxLen bytes of the input stream.
encodeUTF8(ctxLen) == [len |-> ctxLen, off |-> 0]

\* Mutant of newDeriveKey: the context key is compressed without ROOT.
contextKeyHasher_NoRoot(output) ==
  Hasher(compress(output.inputCv, output.blockWords, output.counter,
                  output.blockLen, output.flags),
         DERIVE_KEY_MATERIAL)

\* The Hasher newDeriveKey returns, for the output of contextHasher
\* .finalizeOutput(): its key words are the words of the compression with
\* flags | ROOT.
contextKeyHasher(output) ==
  Hasher(compress(output.inputCv, output.blockWords, output.counter,
                  output.blockLen, BitOr(output.flags, ROOT)),
         DERIVE_KEY_MATERIAL)

\* newDeriveKey from contextHasher.update(contextBytes), whose result is u.
deriveKeyAfterUpdate(u) ==
  IF u.threw
  THEN [created |-> FALSE, threw |-> TRUE, h |-> Hasher(IV, 0)]
  ELSE [created |-> TRUE, threw |-> FALSE,
        h |-> contextKeyHasher(finalizeOutput(u.h).out)]

Hasher_newDeriveKey(contextBytes) ==
  deriveKeyAfterUpdate(Hasher_update(Hasher(IV, DERIVE_KEY_CONTEXT), 0,
                                     contextBytes.off, contextBytes.len))

createDeriveKey(ctxLen) == Hasher_newDeriveKey(encodeUTF8(ctxLen))

ContextLens == {0, 1, 63, 64, 1024, 1025, 3073, 4096}

NewDeriveKey ==
  /\ hist = <<>>
  /\ \E ctxLen \in ContextLens :
       \E r \in {createDeriveKey(ctxLen)} :
         /\ hasher' = IF r.created THEN r.h ELSE hasher
         /\ call' = [op |-> "newDeriveKey", key |-> 0, len |-> ctxLen, off |-> 0,
                     created |-> r.created, threw |-> r.threw]
         /\ hist' = <<"d">>
         /\ UNCHANGED <<fed, ok, last, xof, xof0, xofOut, mod>>

createHasher == [created |-> TRUE, threw |-> FALSE, h |-> Hasher(IV, 0)]

NewHasher ==
  /\ hist = <<>>
  /\ \E r \in {createHasher} :
       /\ hasher' = r.h
       /\ call' = [op |-> "createHasher", key |-> 0, len |-> 0, off |-> 0,
                   created |-> r.created, threw |-> r.threw]
  /\ hist' = <<"n">>
  /\ UNCHANGED <<fed, ok, last, xof, xof0, xofOut, mod>>

NextKey == NewHasher \/ NewKeyed \/ NewDeriveKey \/ KeyUpdate \/ KeyFinalize

SpecKey == Init /\ [][NextKey]_vars

\* The little-endian 32-bit words of a 32-byte digest, as a chaining value:
\* words 0..7 of the root compression with counter 0.
LittleEndianDigestWords(out) ==
  IF /\ Len(out.bytes) = 32
     /\ \A i \in 0..7, b \in 0..3 : out.bytes[4 * i + b + 1] = OutByte(0, i, b)
  THEN compress(out.seed[1], out.seed[2], 0, out.seed[3], out.seed[4])
  ELSE <<"mixed">>

\* contextHasher.finalize(32) for the context of ctxLen bytes.
ContextDigest(ctxLen) ==
  Hasher_finalize(Hasher_update(Hasher(IV, DERIVE_KEY_CONTEXT), 0, 0, ctxLen).h, 32).out

\* C13: newDeriveKey(context) returns a Hasher with mode flag
\* DERIVE_KEY_MATERIAL only, whose key words are the little-endian words of
\* the 32-byte digest of the context bytes under key IV and mode flag
\* DERIVE_KEY_CONTEXT, for contexts of any length.
C13_NewDeriveKey ==
  (hist = <<"d">>) =>
    /\ ~call.threw
    /\ call.created
    /\ hasher.flags = DERIVE_KEY_MATERIAL
    /\ hasher.keyWords = LittleEndianDigestWords(ContextDigest(call.len))
    /\ hasher.chunkState.flags = DERIVE_KEY_MATERIAL
    /\ hasher.chunkState.chainingValue = hasher.keyWords
    /\ hasher.cvStackLen = 0

C13_Witness ==
  /\ hist = <<"d">>
  /\ call.len > CHUNK_LEN
  /\ call.len % CHUNK_LEN # 0
  /\ hasher.keyWords[6] = BitOr(BitOr(DERIVE_KEY_CONTEXT, PARENT), ROOT)
  /\ hasher.keyWords[2] = IV

(***************************************************************************)
(* hashInto (hash.ts).  The caller's output buffer is [seed, bytes]: its   *)
(* bytes, and the seed of the compression the written ones come from.      *)
(* Byte i of the buffer before the call is OldByte(i).                     *)
(***************************************************************************)
OldByte(i) == -2 - i

OutputBuffer(bufLen) ==
  [seed |-> <<"none">>, bytes |-> [i \in 1..bufLen |-> OldByte(i - 1)] \o <<>>]

\* Mutant of output.set: the bytes of output past the source are cleared.
outputSet_ClearsRest(output, r) ==
  IF r.threw \/ Len(r.out.bytes) > Len(output.bytes)
  THEN [m |-> r.m, threw |-> TRUE, output |-> output]
  ELSE [m |-> r.m, threw |-> FALSE,
        output |-> [seed |-> r.out.seed,
                    bytes |-> r.out.bytes
                              \o [i \in 1..(Len(output.bytes) - Len(r.out.bytes)) |-> 0]]]

\* output.set(result), for the result r of a hash or of a byte view: a
\* RangeError when the source is longer than output.
outputSet(output, r) ==
  IF r.threw \/ Len(r.out.bytes) > Len(output.bytes)
  THEN [m |-> r.m, threw |-> TRUE, output |-> output]
  ELSE [m |-> r.m, threw |-> FALSE,
        output |-> [seed |-> r.out.seed,
                    bytes |-> r.out.bytes
                              \o SubSeq(output.bytes, Len(r.out.bytes) + 1,
                                        Len(output.bytes))]]

\* const out = outputLen <= 32 ? reusableOut8 : new Uint32Array(16)
intoBuffer(m, outputLen) == IF outputLen <= 32 THEN m.reusableOut8 ELSE Zeros(16)

\* The module after the root compression of hashPureJSInto wrote out, and
\* the bytes new Uint8Array(out.buffer, out.byteOffset, outputLen).
intoResult(m, outputLen, out) ==
  resultBytes(IF outputLen <= 32 THEN [m EXCEPT !.reusableOut8 = out] ELSE m,
              out, outputLen)

intoChunkRoot(r, outputLen) == intoResult(r.m, outputLen, r.out)

hashPureJSInto(m, inp, output, outputLen) ==
  LET numChunks == (inp.len + CHUNK_LEN - 1) \div CHUNK_LEN
  IN IF inp.len = 0
     THEN outputSet(output,
            intoResult([m EXCEPT !.blockWords = Zeros(16)], outputLen,
                       SetWords(intoBuffer(m, outputLen), 0,
                                compressWords(IVWords, Zeros(16), 0, 0,
                                              BitOr(BitOr(CHUNK_START, CHUNK_END), ROOT),
                                              outputLen > 32))))
     ELSE IF numChunks = 1
     THEN outputSet(output,
            intoChunkRoot(hashChunkRoot(m, inp, 0, inp.len, 0, 0,
                                        intoBuffer(m, outputLen), outputLen > 32),
                          outputLen))
     ELSE outputSet(output, hashPureJS(m, inp, outputLen))

hashSimdInto(m, inp, output, outputLen) == outputSet(output, hashSimd(m, inp, outputLen))

\* path: the hashing function hashInto called ("none" before any call).
withPath(r, path) ==
  [m |-> r.m, threw |-> r.threw, output |-> r.output, path |-> path]

\* Mutant of hashInto: the output buffer is validated after hashing.
hashInto_ValidateLate(m, inp, output, outputLength, supported) ==
  IF inp.len >= SIMD_THRESHOLD /\ (m.simdAvailable \/ supported)
  THEN withPath(hashSimdInto(initSimdSync(m), inp, output, outputLength), "simd")
  ELSE withPath(hashPureJSInto(m, inp, output, outputLength), "pure")

hashInto(m, inp, output, outputLength, supported) ==
  IF Len(output.bytes) < outputLength
  THEN [m |-> m, threw |-> TRUE, output |-> output, path |-> "none"]
  ELSE IF inp.len >= SIMD_THRESHOLD /\ (m.simdAvailable \/ supported)
  THEN withPath(hashSimdInto(initSimdSync(m), inp, output, outputLength), "simd")
  ELSE withPath(hashPureJSInto(m, inp, output, outputLength), "pure")

IntoLens == {0, 64, 1025, 4097}
IntoOffsets == {0, 1}
IntoOutLens == {0, 31, 32, 33, 64, 65}
IntoBufLens == {0, 32, 40, 80}

DoHashInto(len, off, bufLen, outLen, supported) ==
  \E r \in {hashInto(mod, [len |-> len, off |-> off], OutputBuffer(bufLen), outLen,
                     supported)} :
    /\ mod' = r.m
    /\ call' = [len |-> len, off |-> off, outLen |-> outLen, bufLen |-> bufLen,
                supported |-> supported, path |-> r.path, threw |-> r.threw,
                out |-> r.output]
    /\ hist' = Append(hist, "i")
    /\ UNCHANGED <<hasher, fed, ok, last, xof, xof0, xofOut>>

HashInto ==
  /\ Count("i") = 0
  /\ \E len \in IntoLens, off \in IntoOffsets, bufLen \in IntoBufLens,
        outLen \in IntoOutLens, supported \in BOOLEAN :
       DoHashInto(len, off, bufLen, outLen, supported)

IntoWarmup == Count("i") = 0 /\ HashWarmup

NextInto == IntoWarmup \/ HashInto

SpecInto == Init /\ [][NextInto]_vars

\* C12: hashInto throws when output.length < outputLength, before any
\* hashing (no hashing function is called, the module's buffers and its SIMD
\* initialisation are as before the call), and every byte of output is unchanged.
C12_SmallOutputThrows ==
  [][(Count("i")' = 1 /\ Count("i") = 0 /\ call'.bufLen < call'.outLen) =>
       /\ call'.threw
       /\ call'.path = "none"
       /\ mod' = mod
       /\ call'.out = OutputBuffer(call'.bufLen)]_vars

C12_Witness ==
  /\ Count("w") = 1
  /\ Count("i") = 1
  /\ call.len >= SIMD_THRESHOLD
  /\ call.supported
  /\ call.bufLen = 32
  /\ call.outLen = 33
  /\ call.threw
  /\ call.out = OutputBuffer(32)

(***************************************************************************)
(* addChunkCv over the whole range of chunk counts.  The loop of           *)
(* addChunkCv runs one iteration per step, from the Hasher that has        *)
(* completed N - 1 chunks (its stack holds, bottom to top, the subtrees    *)
(* of the set bits of N - 1, <<"sub", k>> the one of 2^k chunks) and is     *)
(* adding the CV of chunk N - 1.  call is the frame of addChunkCv.         *)
(***************************************************************************)
MaxMerges == 64

Bit(t, k) == (t[(k \div 16) + 1] \div (2 ^ (k % 16))) % 2

\* N - 1 for a count N >= 1.
Pred(t) ==
  [i \in 1..4 |-> IF \A j \in 1..(i - 1) : t[j] = 0
                  THEN (IF t[i] = 0 THEN 65535 ELSE t[i] - 1)
                  ELSE t[i]] \o <<>>

SetBits(t) == {k \in 0..63 : Bit(t, k) = 1}

popcount(t) == Cardinality(SetBits(t))

ctz(t) == CHOOSE k \in SetBits(t) : \A j \in SetBits(t) : k <= j

\* The stack of a Hasher that has completed the chunks counted by t.
SubtreeStack(t) ==
  [i \in 1..MAX_DEPTH |->
     IF i <= popcount(t)
     THEN <<"sub", CHOOSE k \in SetBits(t) :
                     Cardinality({j \in SetBits(t) : j > k}) = i - 1>>
     ELSE Zero8]

\* 1, 2, 3, 4, 6, 8, 2^16, 2^31, 2^32 - 1, 2^32, 2^32 + 1, 2^32 + 2,
\* 3 * 2^31, 2^32 + 2^16, 2^33, 2^48 + 2^20.
ChunkCounts ==
  {<<1, 0, 0, 0>>, <<2, 0, 0, 0>>, <<3, 0, 0, 0>>, <<4, 0, 0, 0>>, <<6, 0, 0, 0>>,
   <<8, 0, 0, 0>>, <<0, 1, 0, 0>>, <<0, 32768, 0, 0>>, <<65535, 65535, 0, 0>>,
   <<0, 0, 1, 0>>, <<1, 0, 1, 0>>, <<2, 0, 1, 0>>, <<0, 32768, 1, 0>>,
   <<0, 1, 1, 0>>, <<0, 0, 2, 0>>, <<0, 16, 0, 1>>}

InitCount ==
  /\ \E N \in ChunkCounts :
       /\ hasher = [Hasher(IV, 0) EXCEPT
                      !.chunkState = [ChunkState(IV, Pred(N), 0) EXCEPT
                                        !.blocksCompressed = 15, !.blockLen = BLOCK_LEN],
                      !.cvStack = SubtreeStack(Pred(N)),
                      !.cvStackLen = popcount(Pred(N))]
       /\ call = [op |-> "addChunkCv", N |-> N, totalChunks |-> N, left |-> Zero8,
                  newCv |-> <<"sub", 0>>, merges |-> 0, done |-> FALSE,
                  threw |-> FALSE]
  /\ fed = 0
  /\ ok = TRUE
  /\ hist = <<>>
  /\ last = [op |-> "new", n |-> 0, off |-> 0, threw |-> FALSE, out |-> NoOut]
  /\ xof = NoXof
  /\ xof0 = NoXof
  /\ xofOut = <<>>
  /\ mod = ModuleInit

\* One iteration of the merge loop.
AddChunkCvMerge ==
  /\ ~call.done
  /\ and1(call.totalChunks) = 0
  /\ call.merges < MaxMerges
  /\ \E s \in {mergeOnce(hasher, call.left, call.newCv, call.totalChunks)} :
       /\ hasher' = s.h
       /\ call' = [call EXCEPT !.left = s.left, !.newCv = s.newCv,
                               !.totalChunks = s.totalChunks, !.merges = @ + 1]
  /\ hist' = Append(hist, "m")
  /\ UNCHANGED <<fed, ok, last, xof, xof0, xofOut, mod>>

\* The exit of the loop and the push that follows it.
AddChunkCvPush ==
  /\ ~call.done
  /\ and1(call.totalChunks) # 0
  /\ \E r \in {pushCv(hasher, call.newCv)} :
       /\ hasher' = r.h
       /\ call' = [call EXCEPT !.done = TRUE, !.threw = r.threw]
  /\ hist' = Append(hist, "p")
  /\ UNCHANGED <<fed, ok, last, xof, xof0, xofOut, mod>>

NextCount == AddChunkCvMerge \/ AddChunkCvPush

SpecCount == InitCount /\ [][NextCount]_vars

\* C14: for every total chunk count N >= 1 of the 64-bit range, adding the
\* N-th chunk CV performs exactly ctz(N) parent merges: the loop never runs
\* more than ctz(N) iterations, and it ends after exactly that many.
C14_MergesAreCtz ==
  /\ call.merges <= ctz(call.N)
  /\ call.done => (call.merges = ctz(call.N) /\ ~call.threw)

\* hash(input, n) for the input and output length of the hashInto call.
HashOfCall == hash(mod, [len |-> call.len, off |-> call.off], call.outLen, call.supported)

\* C15: whenever hashInto(input, output, n) returns normally, output[0..n)
\* holds exactly the bytes hash(input, n) returns and every byte of output
\* at index >= n is unchanged, on the single-chunk, multi-chunk scalar and
\* SIMD paths.
C15_IntoEqualsHash ==
  (Count("i") = 1 /\ ~call.threw) =>
    /\ call.bufLen >= call.outLen
    /\ Len(call.out.bytes) = call.bufLen
    /\ ~HashOfCall.threw
    /\ SubSeq(call.out.bytes, 1, call.outLen) = HashOfCall.out.bytes
    /\ call.out.seed = HashOfCall.out.seed
    /\ \A i \in call.outLen..(call.bufLen - 1) : call.out.bytes[i + 1] = OldByte(i)

C15_Witness ==
  /\ Count("w") = 1
  /\ Count("i") = 1
  /\ ~call.threw
  /\ call.path = "simd"
  /\ call.off = 1
  /\ call.outLen = 33
  /\ call.bufLen = 80
  /\ call.out.bytes[33] = OutByte(0, 8, 0)
  /\ call.out.bytes[34] = OldByte(33)

(***************************************************************************)
(* The BLAKE3 tree over the input stream, for key words and a mode flag:   *)
(* a node is the arguments of its compression, without ROOT.               *)
(***************************************************************************)
NodeCv(n) == compress(n.inputCv, n.blockWords, n.counter, n.blockLen, n.flags)

\* The 16 words of the block of len bytes at stream position pos.
TreeBlock(pos, len) ==
  <<"blk", [w \in 1..16 |->
              [b \in 1..4 |-> IF 4 * (w - 1) + b - 1 < len
                              THEN InputByte(pos + 4 * (w - 1) + b - 1)
                              ELSE 0] \o <<>>] \o <<>>>>

TreeBlocksIn(len) == IF len = 0 THEN 1 ELSE (len + BLOCK_LEN - 1) \div BLOCK_LEN

\* Chunk c, of len bytes, from its block b on with chaining value cv.
RECURSIVE TreeChunkFrom(_, _, _, _, _, _)
TreeChunkFrom(cv, mode, c, len, b, start) ==
  IF b = TreeBlocksIn(len) - 1
  THEN [inputCv |-> cv, blockWords |-> TreeBlock(c * CHUNK_LEN + b * BLOCK_LEN,
                                                 len - b * BLOCK_LEN),
        counter |-> c, blockLen |-> len - b * BLOCK_LEN,
        flags |-> BitOr(BitOr(mode, start), CHUNK_END)]
  ELSE TreeChunkFrom(compress(cv, TreeBlock(c * CHUNK_LEN + b * BLOCK_LEN, BLOCK_LEN),
                              c, BLOCK_LEN, BitOr(mode, start)),
                     mode, c, len, b + 1, 0)

TreeChunk(key, mode, c, len) == TreeChunkFrom(key, mode, c, len, 0, CHUNK_START)

\* The largest power of two strictly less than n >= 2, from the power p < n.
RECURSIVE LeftSize(_, _)
LeftSize(n, p) == IF 2 * p < n THEN LeftSize(n, 2 * p) ELSE p

\* The subtree over the len bytes that start with chunk first.
RECURSIVE Tree(_, _, _, _)
Tree(key, mode, first, len) ==
  IF len <= CHUNK_LEN THEN TreeChunk(key, mode, first, len)
  ELSE [inputCv |-> key,
        blockWords |->
          <<"par",
            NodeCv(Tree(key, mode, first,
                        CHUNK_LEN * LeftSize((len + CHUNK_LEN - 1) \div CHUNK_LEN, 1))),
            NodeCv(Tree(key, mode,
                        first + LeftSize((len + CHUNK_LEN - 1) \div CHUNK_LEN, 1),
                        len - CHUNK_LEN * LeftSize((len + CHUNK_LEN - 1) \div CHUNK_LEN, 1)))>>,
        counter |-> 0, blockLen |-> BLOCK_LEN, flags |-> BitOr(mode, PARENT)]

\* The CVs of the complete subtrees of the set bits of n, most significant
\* first, over the chunks from first on.
RECURSIVE TreeStack(_, _, _, _)
TreeStack(key, mode, first, n) ==
  IF n = 0 THEN <<>>
  ELSE <<NodeCv(Tree(key, mode, first, CHUNK_LEN * LeftSize(n + 1, 1)))>>
       \o TreeStack(key, mode, first + LeftSize(n + 1, 1), n - LeftSize(n + 1, 1))

\* The chunk CVs added so far: a chunk is completed by the first byte that
\* follows it.
ChunksAdded == IF fed = 0 THEN 0 ELSE (fed - 1) \div CHUNK_LEN

\* C16: in a Hasher that has not been finalized and whose updates all
\* returned, after the N-th chunk CV has been added cvStackLen is popcount(N)
\* and the stack holds, bottom to top, the CVs of the complete subtrees of
\* the set bits of N, most significant first.
C16_StackIsSetBits ==
  (hist # <<>> /\ call.created /\ ok /\ Count("f") = 0) =>
    /\ hasher.chunkState.chunkCounter = ChunksAdded
    /\ hasher.cvStackLen = popcount(Number(ChunksAdded))
    /\ SubSeq(hasher.cvStack, 1, hasher.cvStackLen)
         = TreeStack(hasher.keyWords, hasher.flags, 0, ChunksAdded)

C16_Witness ==
  /\ Count("u") = 2
  /\ Count("f") = 0
  /\ ok
  /\ ChunksAdded = 10
  /\ hasher.cvStackLen = 2
  /\ hasher.flags = KEYED_HASH

\* The seed of the output of the tree over the first len bytes of the
\* stream: its root node, compressed with ROOT.
TreeRootSeed(key, mode, len) ==
  SeedOf(Tree(key, mode, 0, len).inputCv, Tree(key, mode, 0, len).blockWords,
         Tree(key, mode, 0, len).blockLen, BitOr(Tree(key, mode, 0, len).flags, ROOT))

\* C17: for every number of chunks N >= 2 the root node produced by the
\* finalization of a streaming Hasher has as left child the CV of the
\* complete subtree over the first 2^k chunks (2^k the largest power of two
\* below N) and as right child the CV, defined in the same way, of the
\* remaining chunks, every parent block being left CV || right CV.
C17_RootIsTree ==
  (FirstFinalization /\ ok /\ last.op = "finalize" /\ fed > CHUNK_LEN) =>
    last.out.seed = TreeRootSeed(hasher.keyWords, hasher.flags, fed)

\* The same for the one-shot hash.
C17_OneShotRootIsTree ==
  (Count("h") = 1 /\ ~call.threw /\ call.len > CHUNK_LEN) =>
    call.out.seed = TreeRootSeed(IV, 0, call.len)

\* The same for a finalize of at most 64 bytes.
C17_ShortFinalizeRootIsTree ==
  (FirstFinalization /\ ok /\ last.op = "finalize" /\ fed > CHUNK_LEN /\ last.n <= 64) =>
    last.out.seed = TreeRootSeed(hasher.keyWords, hasher.flags, fed)

(***************************************************************************)
(* The compressions behind a chaining value: a CV is <<"cv", inputCv,      *)
(* block, counter, blockLen, flags>> or a constant, a block is             *)
(* <<"blk", words>> or <<"par", left, right>>.                             *)
(***************************************************************************)
HasFlag(flags, f) == BitAnd(flags, f) # 0

\* Some compression of the hasher with key words key behind the CV t
\* carries ROOT.
RECURSIVE CarriesRoot(_, _)
CarriesRoot(t, key) ==
  /\ t # key
  /\ t[1] = "cv"
  /\ \/ HasFlag(t[6], ROOT)
     \/ CarriesRoot(t[2], key)
     \/ (t[3][1] = "par" /\ (CarriesRoot(t[3][2], key) \/ CarriesRoot(t[3][3], key)))

\* The CVs the Hasher holds: the results of the compressions of update.
HasherCvs ==
  {hasher.chunkState.chainingValue} \cup {hasher.cvStack[i] : i \in 1..MAX_DEPTH}

\* C18: ROOT is set only on the compression of the root node.  No
\* compression of update and no non-final merge of finalization carries
\* ROOT; the node compressed with ROOT is the sole chunk's last block for an
\* input of at most 1024 bytes and the top-level parent node otherwise.
C18_RootOnlyOnRoot ==
  /\ \A cv \in HasherCvs : ~CarriesRoot(cv, hasher.keyWords)
  /\ (last.op = "finalize" /\ ok) =>
       /\ HasFlag(last.out.seed[4], ROOT)
       /\ ~CarriesRoot(last.out.seed[1], hasher.keyWords)
       /\ last.out.seed[2][1] = "par" =>
            /\ ~CarriesRoot(last.out.seed[2][2], hasher.keyWords)
            /\ ~CarriesRoot(last.out.seed[2][3], hasher.keyWords)
       /\ IF fed <= CHUNK_LEN
          THEN /\ last.out.seed[2][1] = "blk"
               /\ HasFlag(last.out.seed[4], CHUNK_END)
               /\ ~HasFlag(last.out.seed[4], PARENT)
          ELSE /\ last.out.seed[2][1] = "par"
               /\ HasFlag(last.out.seed[4], PARENT)
               /\ ~HasFlag(last.out.seed[4], CHUNK_END)

\* The same for the first finalization of at most 64 bytes.
C18_FirstShortFinalize ==
  (Count("f") + Count("x") <= 1 /\ (last.op = "finalize" => last.n <= 64))
    => C18_RootOnlyOnRoot

(***************************************************************************)
(* The program used either through one Hasher or through the one-shot      *)
(* hash.                                                                   *)
(***************************************************************************)
Streaming == hist # <<>> /\ hist[1] \in {"n", "k", "d"}

OneShot == hist # <<>> /\ hist[1] \in {"w", "h"}

NextChunks == (~OneShot /\ NextKey) \/ (~Streaming /\ NextHash)

SpecChunks == Init /\ [][NextChunks]_vars

\* The blocks compressed before the one whose input CV is t, in a chunk of
\* a hasher with key words key.
RECURSIVE ChainLen(_, _)
ChainLen(t, key) == IF t = key \/ t[1] # "cv" THEN 0 ELSE 1 + ChainLen(t[2], key)

\* t is the compression of a block of chunk c, the last one iff isLast, and
\* so are the compressions before it: flags, counter, block length, and the
\* bytes of the stream the block holds.
RECURSIVE ChainOk(_, _, _, _)
ChainOk(t, key, c, isLast) ==
  /\ t[1] = "cv"
  /\ t[3][1] = "blk"
  /\ t[4] = c
  /\ HasFlag(t[6], CHUNK_START) <=> (t[2] = key)
  /\ HasFlag(t[6], CHUNK_END) <=> isLast
  /\ ~isLast => t[5] = BLOCK_LEN
  /\ t[5] \in 0..BLOCK_LEN
  /\ ChainLen(t[2], key) < CHUNK_LEN \div BLOCK_LEN
  /\ t[3] = TreeBlock(c * CHUNK_LEN + ChainLen(t[2], key) * BLOCK_LEN, t[5])
  /\ t[2] # key => ChainOk(t[2], key, c, FALSE)

\* Every chunk below the node t is compressed as ChainOk says.
RECURSIVE ChunksOk(_, _)
ChunksOk(t, key) ==
  IF t = key \/ t[1] # "cv" THEN TRUE
  ELSE IF t[3][1] = "par" THEN ChunksOk(t[3][2], key) /\ ChunksOk(t[3][3], key)
  ELSE ChainOk(t, key, t[4], TRUE)

\* The root compression of an output of at least one byte, with the counter
\* of its first byte.
RootOf(out) ==
  compress(out.seed[1], out.seed[2], out.bytes[1] \div 64, out.seed[3], out.seed[4])

\* C19: in every chunk CHUNK_START is set on the compression of block 0 only
\* and CHUNK_END on that of the last block only, every block is compressed
\* with the chunk's index as counter, and every block but the last has block
\* length 64: in the Hasher (blocks compressed so far, CV stack, finalize)
\* and in the one-shot hash, scalar and SIMD.
C19_ChunkFlags ==
  /\ (Streaming /\ call.created /\ ok) =>
       /\ hasher.chunkState.blocksCompressed
            = ChainLen(hasher.chunkState.chainingValue, hasher.keyWords)
       /\ hasher.chunkState.chainingValue # hasher.keyWords =>
            ChainOk(hasher.chunkState.chainingValue, hasher.keyWords,
                    hasher.chunkState.chunkCounter, FALSE)
       /\ \A i \in 1..MAX_DEPTH : ChunksOk(hasher.cvStack[i], hasher.keyWords)
       /\ last.op = "finalize" => ChunksOk(RootOf(last.out), hasher.keyWords)
  /\ (OneShot /\ ~call.threw) => ChunksOk(RootOf(call.out), IV)

C19_Witness ==
  /\ Streaming
  /\ ok
  /\ hasher.flags = KEYED_HASH
  /\ Count("u") = 2
  /\ last.op = "finalize"
  /\ fed = 3072 + 7169
  /\ last.out.seed[2][1] = "par"

C19_OneShotWitness ==
  /\ OneShot
  /\ ~call.threw
  /\ call.simd
  /\ call.len = 6244
  /\ call.off = 1

ModeMask == KEYED_HASH + DERIVE_KEY_CONTEXT + DERIVE_KEY_MATERIAL

\* Every compression behind the CV t, in a hasher with key words key and
\* mode flag mode, has exactly that mode flag, and every parent compression
\* has the key words as input CV, counter 0, block length 64 and flags
\* mode | PARENT.
RECURSIVE NodesOk(_, _, _)
NodesOk(t, key, mode) ==
  IF t = key \/ t[1] # "cv" THEN TRUE
  ELSE /\ BitAnd(t[6], ModeMask) = mode
       /\ IF t[3][1] = "par"
          THEN /\ t[2] = key
               /\ t[4] = 0
               /\ t[5] = BLOCK_LEN
               /\ t[6] = BitOr(mode, PARENT)
               /\ NodesOk(t[3][2], key, mode)
               /\ NodesOk(t[3][3], key, mode)
          ELSE /\ ~HasFlag(t[6], PARENT)
               /\ NodesOk(t[2], key, mode)

\* The same for the root compression t: a parent root has PARENT and ROOT.
RootNodeOk(t, key, mode) ==
  /\ BitAnd(t[6], ModeMask) = mode
  /\ HasFlag(t[6], ROOT)
  /\ IF t[3][1] = "par"
     THEN /\ t[2] = key
          /\ t[4] = 0
          /\ t[5] = BLOCK_LEN
          /\ t[6] = BitOr(BitOr(mode, PARENT), ROOT)
          /\ NodesOk(t[3][2], key, mode)
          /\ NodesOk(t[3][3], key, mode)
     ELSE /\ ~HasFlag(t[6], PARENT)
          /\ NodesOk(t[2], key, mode)

HasherNodesOk ==
  /\ hasher.chunkState.flags = hasher.flags
  /\ \A cv \in HasherCvs : NodesOk(cv, hasher.keyWords, hasher.flags)
  /\ last.op = "finalize" => RootNodeOk(RootOf(last.out), hasher.keyWords, hasher.flags)

\* C20: every compression a Hasher performs has the hasher's mode flag in
\* its flags, every parent compression uses the key words as input CV,
\* counter 0, block length 64 and flags mode | PARENT (plus ROOT for
\* the root), and no call changes the key words or the mode flag.
C20_ModeAndKey ==
  [][(hist # <<>> /\ call.created) =>
       /\ hasher'.keyWords = hasher.keyWords
       /\ hasher'.flags = hasher.flags
       /\ HasherNodesOk']_vars

C20_Witness ==
  /\ hist # <<>>
  /\ hist[1] = "d"
  /\ Count("u") = 2
  /\ ChunksAdded = 10
  /\ last.op = "finalize"
  /\ last.out.seed[4] = BitOr(BitOr(DERIVE_KEY_MATERIAL, PARENT), ROOT)
  /\ last.out.seed[1] = hasher.keyWords

(***************************************************************************)
(* The empty input.                                                        *)
(***************************************************************************)
\* The seed of the root compression of the empty input: the key words as
\* input CV, a block of 16 zero words, block length 0.
EmptySeed(key, mode) ==
  SeedOf(key, <<"blk", ZeroWords16>>, 0,
         BitOr(mode, CHUNK_START + CHUNK_END + ROOT))

\* Byte o of the output is byte (o mod 64) of the output block with counter
\* floor(o / 64): the blocks are compressed with the counters 0, 1, ...
FromBlockZero(out) ==
  \A o \in 0..(Len(out.bytes) - 1) :
    out.bytes[o + 1] = OutByte(o \div 64, (o % 64) \div 4, o % 4)

\* C21: the output of hashing the empty input (a Hasher with no update or
\* zero-length updates only, or the one-shot hash of an empty array) is that
\* of one compression per output block with the key words as input CV, an
\* all-zero block, counter 0 for the first block, block length 0 and the
\* flags mode | CHUNK_START | CHUNK_END | ROOT.
C21_EmptyInput ==
  /\ (Streaming /\ call.created /\ fed = 0 /\ last.op = "finalize") =>
       /\ last.out.seed = EmptySeed(hasher.keyWords, hasher.flags)
       /\ Len(last.out.bytes) = last.n
       /\ FromBlockZero(last.out)
  /\ (OneShot /\ call.len = 0 /\ ~call.threw) =>
       /\ call.out.seed = EmptySeed(IV, 0)
       /\ Len(call.out.bytes) = call.outLen
       /\ FromBlockZero(call.out)

C21_Witness ==
  /\ Streaming
  /\ hasher.flags = DERIVE_KEY_MATERIAL
  /\ hist = <<"d", "u", "u", "f">>
  /\ fed = 0
  /\ last.n = 64

C21_OneShotWitness ==
  /\ OneShot
  /\ Count("w") = 1
  /\ call.len = 0
  /\ call.off = 1
  /\ call.outLen = 33
  /\ ~call.threw

\* The same for the plain Hasher finalized at any length, also repeatedly.
C21_EmptyFinalize ==
  (fed = 0 /\ last.op = "finalize") =>
    /\ last.out.seed = EmptySeed(IV, 0)
    /\ Len(last.out.bytes) = last.n
    /\ FromBlockZero(last.out)

(***************************************************************************)
(* Hasher.update step by step: the loop of Hasher.update and, inside it,   *)
(* the loop of ChunkState.update, one iteration at a time.  call is the    *)
(* running call: inputLen is the inputLen of Hasher.update, take the       *)
(* inputLen of the running ChunkState.update (0: none is running), addr    *)
(* the address of the next input byte; fed is its stream position.         *)
(***************************************************************************)
MaxStepCalls == 2
MaxStepFinalizes == 1

StepLens == {0, 1, 64, 1024, 2049}
StepOffsets == {0, 1}

\* update(input) is called: "let inputOffset = 0; let inputLen = input.length".
StepCall ==
  /\ IF hist = <<>> THEN TRUE ELSE ~call.active
  /\ Count("b") < MaxStepCalls
  /\ \E len \in StepLens, off \in StepOffsets :
       call' = [op |-> "update", active |-> TRUE, inputLen |-> len, take |-> 0,
                addr |-> off, threw |-> FALSE]
  /\ hist' = Append(hist, "b")
  /\ UNCHANGED <<hasher, fed, ok, last, xof, xof0, xofOut, mod>>

\* The test "while (inputLen > 0)" of Hasher.update and the loop body up to
\* the call of chunkState.update, or the return.
StepHasher ==
  /\ hist # <<>> /\ call.active /\ call.take = 0
  /\ \E r \in {IF call.inputLen > 0 /\ ChunkState_len(hasher.chunkState) = CHUNK_LEN
               THEN finishChunk(hasher)
               ELSE [h |-> hasher, threw |-> FALSE]} :
       /\ hasher' = r.h
       /\ ok' = (ok /\ ~r.threw)
       /\ call' =
            IF call.inputLen = 0 \/ r.threw
            THEN [call EXCEPT !.active = FALSE, !.threw = r.threw]
            ELSE [call EXCEPT
                    !.take = Min(CHUNK_LEN - ChunkState_len(r.h.chunkState), call.inputLen),
                    !.inputLen = @ - Min(CHUNK_LEN - ChunkState_len(r.h.chunkState),
                                         call.inputLen)]
  /\ hist' = Append(hist, "h")
  /\ UNCHANGED <<fed, last, xof, xof0, xofOut, mod>>

\* The bytes one iteration of the loop of ChunkState.update takes.
blockTake(cs, inputLen) ==
  Min(BLOCK_LEN - (IF cs.blockLen = BLOCK_LEN THEN 0 ELSE cs.blockLen), inputLen)

\* One iteration of "while (inputLen > 0)" of ChunkState.update.
StepChunk ==
  /\ hist # <<>> /\ call.active /\ call.take > 0
  /\ \E n \in {blockTake(hasher.chunkState, call.take)} :
       \E u \in {ChunkState_update(hasher.chunkState, fed, call.addr, n)} :
         /\ hasher' = [hasher EXCEPT !.chunkState = u.cs]
         /\ ok' = (ok /\ ~u.threw)
         /\ fed' = IF u.threw THEN fed ELSE fed + n
         /\ call' = IF u.threw
                    THEN [call EXCEPT !.active = FALSE, !.threw = TRUE, !.take = 0]
                    ELSE [call EXCEPT !.take = @ - n, !.addr = @ + n]
  /\ hist' = Append(hist, "c")
  /\ UNCHANGED <<last, xof, xof0, xofOut, mod>>

StepFinalize ==
  /\ hist # <<>> /\ ~call.active
  /\ Count("f") < MaxStepFinalizes
  /\ DoFinalize(OUT_LEN)

NextStep == StepCall \/ StepHasher \/ StepChunk \/ StepFinalize

SpecStep == Init /\ [][NextStep]_vars

ChunkStateOk(cs) ==
  /\ cs.blocksCompressed \in 0..15
  /\ cs.blockLen \in 0..BLOCK_LEN
  /\ cs.blocksCompressed * BLOCK_LEN + cs.blockLen <= CHUNK_LEN

\* C22: in every reachable ChunkState 0 <= blocksCompressed <= 15,
\* 0 <= blockLen <= 64 and blocksCompressed * 64 + blockLen <= 1024; a chunk
\* that holds 1024 bytes is changed by nothing but its replacement with a
\* new ChunkState with the next chunk counter.
C22_ChunkBounds ==
  /\ []ChunkStateOk(hasher.chunkState)
  /\ [][(hasher.chunkState.blocksCompressed * BLOCK_LEN + hasher.chunkState.blockLen
            = CHUNK_LEN
         /\ hasher'.chunkState # hasher.chunkState) =>
          hasher'.chunkState
            = ChunkState(hasher.keyWords, hasher.chunkState.chunkCounter + 1,
                         hasher.flags)]_vars

\* The running update call has filled a chunk, replaced it, and filled the
\* next one.
C22_Witness ==
  /\ hist # <<>> /\ call.active
  /\ hasher.chunkState.chunkCounter = 1
  /\ hasher.chunkState.blocksCompressed = 15
  /\ hasher.chunkState.blockLen = BLOCK_LEN
  /\ call.inputLen > 0

\* C23: after update calls of T bytes in total on a fresh Hasher, with no
\* finalize in between, the chunk counter is max(0, ceil(T / 1024) - 1) and
\* chunkState.len() is T - 1024 * counter: the chunk is empty only for
\* T = 0, and a chunk that is exactly full is kept, the CV stack holding the
\* chunks before it only; an update of length 0 changes nothing.
C23_ChunkCounter ==
  /\ []((ok /\ Count("f") = 0 /\ (IF hist = <<>> THEN TRUE ELSE ~call.active)) =>
          /\ hasher.chunkState.chunkCounter
               = (IF fed = 0 THEN 0 ELSE (fed + CHUNK_LEN - 1) \div CHUNK_LEN - 1)
          /\ ChunkState_len(hasher.chunkState)
               = fed - CHUNK_LEN * hasher.chunkState.chunkCounter
          /\ (ChunkState_len(hasher.chunkState) = 0 <=> fed = 0)
          /\ hasher.cvStackLen = popcount(Number(hasher.chunkState.chunkCounter)))
  /\ [][(hist # <<>> /\ hist[Len(hist)] = "b" /\ call.inputLen = 0) =>
          (hasher' = hasher /\ fed' = fed /\ ~call'.active /\ ~call'.threw)]_vars

\* Two updates have filled the second chunk exactly: it is the current
\* chunk, and the stack holds the first chunk only.
C23_Witness ==
  /\ Count("b") = 2
  /\ Count("f") = 0
  /\ ~call.active
  /\ ok
  /\ fed = 2 * CHUNK_LEN
  /\ ChunkState_len(hasher.chunkState) = CHUNK_LEN
  /\ hasher.cvStackLen = 1

\* The same at the return of every update of the plain Hasher fed from views
\* at any byteOffset, in pieces of other lengths.
C23_AtReturn ==
  (ok /\ Count("f") + Count("x") = 0) =>
    /\ hasher.chunkState.chunkCounter
         = (IF fed = 0 THEN 0 ELSE (fed + CHUNK_LEN - 1) \div CHUNK_LEN - 1)
    /\ ChunkState_len(hasher.chunkState)
         = fed - CHUNK_LEN * hasher.chunkState.chunkCounter
    /\ hasher.cvStackLen = popcount(Number(hasher.chunkState.chunkCounter))

\* The bytes the final block of the last chunk of an input of T bytes holds.
FinalBlockLen(T) == IF T = 0 THEN 0 ELSE ((T - 1) % BLOCK_LEN) + 1

\* The compression of the final block of the last chunk below the node t.
RECURSIVE LastBlock(_)
LastBlock(t) == IF t[3][1] = "par" THEN LastBlock(t[3][3]) ELSE t

\* C24: the 16 message words of the final block of a chunk are the L bytes
\* the block holds, in little-endian order, followed by zero bytes, with no
\* byte of an earlier block or an earlier call, and the block length passed
\* is L: in ChunkState.output after any sequence of updates, and in the
\* final block of the one-shot hash.
C24_FinalBlockPadded ==
  /\ (Streaming /\ call.created /\ ok) =>
       /\ ChunkState_output(hasher.chunkState).out.blockWords
            = TreeBlock(fed - FinalBlockLen(fed), FinalBlockLen(fed))
       /\ ChunkState_output(hasher.chunkState).out.blockLen = FinalBlockLen(fed)
  /\ (OneShot /\ ~call.threw) =>
       /\ LastBlock(RootOf(call.out))[3]
            = TreeBlock(call.len - FinalBlockLen(call.len), FinalBlockLen(call.len))
       /\ LastBlock(RootOf(call.out))[5] = FinalBlockLen(call.len)

\* A block of 64 bytes was loaded and compressed, and the next block then
\* filled with a single byte by a later update call.
C24_Witness ==
  /\ Streaming
  /\ ok
  /\ Len(hist) = 3
  /\ hist[2] = "u"
  /\ hist[3] = "u"
  /\ fed = BLOCK_LEN + 1
  /\ hasher.chunkState.blocksCompressed = 1
  /\ hasher.chunkState.blockLen = 1
  /\ hasher.chunkState.blockWords[2] # ZeroWord

C24_OneShotWitness ==
  /\ OneShot
  /\ ~call.threw
  /\ Count("w") = 1
  /\ call.len = 8191
  /\ call.off = 1

\* The same for the plain Hasher fed from views at any byteOffset, also
\* after finalize calls.
C24_FinalBlockAfterFinalize ==
  ok =>
    /\ ChunkState_output(hasher.chunkState).out.blockWords
         = TreeBlock(fed - FinalBlockLen(fed), FinalBlockLen(fed))
    /\ ChunkState_output(hasher.chunkState).out.blockLen = FinalBlockLen(fed)

\* The bytes the reader has returned so far.
XofReturned == Len(Flatten(xofOut))

\* C25: after a reader has returned T bytes over any sequence of reads its
\* counter has advanced by ceil(T / 64) and outputBlockOffset is 64 when
\* T mod 64 = 0 and T mod 64 otherwise; outputBlockOffset stays in 0..64,
\* read(n) returns exactly n bytes, and read(0) changes no state.
C25_ReaderPosition ==
  /\ [](Count("x") = 1 =>
          /\ xof.counter - xof0.counter = (XofReturned + 63) \div 64
          /\ xof.outputBlockOffset
               = (IF XofReturned % 64 = 0 THEN 64 ELSE XofReturned % 64)
          /\ xof.outputBlockOffset \in 0..64
          /\ last.op = "read" => Len(last.out.bytes) = last.n)
  /\ [][(hist' = Append(hist, "r") /\ last'.n = 0) => xof' = xof]_vars

\* Two reads, the first ending inside a word of a block, that together end
\* at the end of the second block.
C25_Witness ==
  /\ Count("x") = 1
  /\ Len(xofOut) = 2
  /\ Len(xofOut[1]) = 63
  /\ Len(xofOut[2]) = 65
  /\ xof.counter = 2

(***************************************************************************)
(* The reader and the Hasher it came from.  A Uint32Array is an object:    *)
(* the arrays of the current ChunkState are written in place by update     *)
(* until the chunk is full and a new ChunkState replaces it.  call records *)
(* finalizeXof: for each array of the reader which object it is ("new": an *)
(* array of its own), the ChunkState that was current, and the bytes fed.  *)
(***************************************************************************)
MaxSnapUpdates == 2
MaxSnapReads == 2

SnapLens == {1, 63, 1024}
SnapReadLens == {1, 65}

\* Mutant of the arrays of the reader: the arrays of the output themselves,
\* the chunk's for a single chunk, else keyWords and the local parentBlock.
readerArrays_Shared(h) ==
  IF h.cvStackLen > 0
  THEN [inputCv |-> "keyWords", blockWords |-> "new"]
  ELSE [inputCv |-> "chainingValue", blockWords |-> "blockWords"]

\* "new Uint32Array(output.inputCv), new Uint32Array(output.blockWords)":
\* copies of the arrays of the output.
readerArrays(h) == [inputCv |-> "new", blockWords |-> "new"]

\* The ChunkState object that was current when the Hasher was h, after
\* update(len) from h at stream position pos has left the Hasher h2: the
\* current one, or h's filled up when update went on to a new ChunkState.
chunkObjectAfter(h, pos, len, h2) ==
  IF h2.chunkState.chunkCounter = h.chunkState.chunkCounter
  THEN h2.chunkState
  ELSE Hasher_update(h, pos, 0, CHUNK_LEN - ChunkState_len(h.chunkState)).h.chunkState

\* The reader after update(len) on the Hasher: its arrays that are arrays
\* of the ChunkState hold what update wrote to them.
readerAfterUpdate(x, c, h, pos, len, h2) ==
  IF h.chunkState.chunkCounter # c.chunk THEN x
  ELSE [x EXCEPT
          !.inputCv = IF c.arrays.inputCv = "chainingValue"
                      THEN chunkObjectAfter(h, pos, len, h2).chainingValue
                      ELSE @,
          !.blockWords = IF c.arrays.blockWords = "blockWords"
                         THEN <<"blk", chunkObjectAfter(h, pos, len, h2).blockWords>>
                         ELSE @]

SnapFinalizeXof ==
  /\ Count("x") = 0
  /\ \E r \in {Hasher_finalizeXof(hasher)} :
       /\ hasher' = r.h
       /\ xof' = r.xof
       /\ xof0' = r.xof
       /\ call' = [op |-> "finalizeXof", arrays |-> readerArrays(hasher),
                   chunk |-> r.h.chunkState.chunkCounter, fed |-> fed]
  /\ hist' = Append(hist, "x")
  /\ last' = [op |-> "finalizeXof", n |-> 0, off |-> 0, threw |-> FALSE, out |-> NoOut]
  /\ xofOut' = <<>>
  /\ UNCHANGED <<fed, ok, mod>>

\* update on the Hasher after finalizeXof has returned the reader.
SnapUpdate ==
  /\ Count("x") = 1
  /\ Count("u") - (IF hist[1] = "u" THEN 1 ELSE 0) < MaxSnapUpdates
  /\ \E len \in SnapLens :
       \E r \in {Hasher_update(hasher, fed, 0, len)} :
         /\ hasher' = r.h
         /\ fed' = fed + len
         /\ ok' = (ok /\ ~r.threw)
         /\ xof' = readerAfterUpdate(xof, call, hasher, fed, len, r.h)
         /\ last' = [op |-> "update", n |-> len, off |-> 0, threw |-> r.threw,
                     out |-> NoOut]
  /\ hist' = Append(hist, "u")
  /\ UNCHANGED <<xof0, xofOut, mod, call>>

SnapRead ==
  /\ Count("x") = 1
  /\ Len(xofOut) < MaxSnapReads
  /\ \E n \in SnapReadLens : DoRead(n)

NextSnap == XofUpdate \/ SnapFinalizeXof \/ SnapUpdate \/ SnapRead

SpecSnap == Init /\ [][NextSnap]_vars

\* C26: the reader finalizeXof returned is a snapshot of the Hasher: update
\* calls on the Hasher after finalizeXof change no byte the reader returns,
\* which are those of the output stream of the input fed before finalizeXof.
C26_ReaderIsSnapshot ==
  Count("x") = 1 =>
    /\ XofSeed(xof) = XofSeed(xof0)
    /\ XofSeed(xof) = FreshXofRead(call.fed, 0).seed
    /\ last.op = "read" =>
         /\ last.out.seed = XofSeed(xof0)
         /\ Flatten(xofOut) = XofReader_read(xof0, XofReturned).out

\* A read after an update that wrote to the block buffer and the chaining
\* value of the chunk that was current at finalizeXof.
C26_Witness ==
  /\ hist = <<"u", "x", "r", "u", "u", "r">>
  /\ call.fed = 1
  /\ fed = BLOCK_LEN + 1
  /\ ok
  /\ hasher.chunkState.blocksCompressed = 1

(***************************************************************************)
(* Two Hashers and the one-shot hash, called in any order.  call holds     *)
(* the two Hashers (hs), the bytes fed to each (fed), the calls made on    *)
(* each with what they returned (calls), and the contents of the           *)
(* module-level array IV (iv), the one array both constructors are handed. *)
(***************************************************************************)
MaxTwoCalls == 4

TwoLens == {1, 1025}
TwoHashLens == {1025}

\* Mutant of the constructors: "this.keyWords = IV" and
\* "this.chainingValue = keyWords", the arrays themselves.
constructorArrays_Shared == [keyWords |-> "IV", chainingValue |-> "keyWords"]

\* Hasher: "new Uint32Array(IV)"; ChunkState: "new Uint32Array(keyWords)".
\* Both arrays are copies, objects of the Hasher alone.
constructorArrays == [keyWords |-> "new", chainingValue |-> "new"]

\* The Hasher h as a method reads it when the array IV holds iv.
sharedView(h, iv) ==
  [h EXCEPT
     !.keyWords = IF constructorArrays.keyWords = "IV" THEN iv ELSE @,
     !.chunkState.chainingValue =
        IF constructorArrays.chainingValue # "keyWords" THEN @
        ELSE IF constructorArrays.keyWords = "IV" THEN iv
        ELSE h.keyWords]

\* The Hasher a method left as h2: compress wrote the chaining value in
\* place, to keyWords if that is the same array.
sharedStore(h2) ==
  [h2 EXCEPT !.keyWords = IF constructorArrays.chainingValue = "keyWords"
                          THEN h2.chunkState.chainingValue ELSE @]

\* The array IV after a method left the Hasher as h2.
ivAfter(h2, iv) ==
  IF constructorArrays.keyWords = "IV" /\ constructorArrays.chainingValue = "keyWords"
  THEN h2.chunkState.chainingValue
  ELSE iv

InitTwo ==
  /\ hasher = Hasher(IV, 0)
  /\ fed = 0
  /\ ok = TRUE
  /\ hist = <<>>
  /\ last = [op |-> "new", n |-> 0, off |-> 0, threw |-> FALSE, out |-> NoOut]
  /\ xof = NoXof
  /\ xof0 = NoXof
  /\ xofOut = <<>>
  /\ mod = ModuleInit
  /\ call = [op |-> "two", hs |-> <<Hasher(IV, 0), Hasher(IV, 0)>>, fed |-> <<0, 0>>,
             calls |-> <<<<>>, <<>>>>, iv |-> IV]

\* The state after a method of Hasher i that left it as h2, took len bytes
\* and returned res.
TwoReturn(i, h2, len, res, tag) ==
  /\ call' = [call EXCEPT !.hs[i] = sharedStore(h2),
                          !.fed[i] = @ + len,
                          !.calls[i] = Append(@, res),
                          !.iv = ivAfter(h2, call.iv)]
  /\ hist' = Append(hist, tag)
  /\ UNCHANGED <<hasher, fed, ok, last, xof, xof0, xofOut, mod>>

TwoUpdate ==
  /\ Len(hist) < MaxTwoCalls
  /\ \E i \in 1..2, len \in TwoLens :
       \E r \in {Hasher_update(sharedView(call.hs[i], call.iv), call.fed[i], 0, len)} :
         TwoReturn(i, r.h, len, [op |-> "update", n |-> len, threw |-> r.threw,
                                 out |-> NoOut], "u")

TwoFinalize ==
  /\ Len(hist) < MaxTwoCalls
  /\ \E i \in 1..2 :
       \E r \in {Hasher_finalize(sharedView(call.hs[i], call.iv), OUT_LEN)} :
         TwoReturn(i, r.h, 0, [op |-> "finalize", n |-> OUT_LEN, threw |-> FALSE,
                               out |-> r.out], "f")

TwoFinalizeXof ==
  /\ Len(hist) < MaxTwoCalls
  /\ \E i \in 1..2 :
       \E r \in {Hasher_finalizeXof(sharedView(call.hs[i], call.iv))} :
         TwoReturn(i, r.h, 0, [op |-> "finalizeXof", n |-> 0, threw |-> FALSE,
                               out |-> r.xof], "x")

TwoHash ==
  /\ Len(hist) < MaxTwoCalls
  /\ \E len \in TwoHashLens, supported \in BOOLEAN :
       mod' = hash(mod, [len |-> len, off |-> 0], OUT_LEN, supported).m
  /\ hist' = Append(hist, "h")
  /\ UNCHANGED <<hasher, fed, ok, last, xof, xof0, xofOut, call>>

NextTwo == TwoUpdate \/ TwoFinalize \/ TwoFinalizeXof \/ TwoHash

SpecTwo == InitTwo /\ [][NextTwo]_vars

\* What the calls return, in their order, on a Hasher h of its own that has
\* been fed pos bytes, with no other call running.
RECURSIVE Alone(_, _, _)
AloneUpdate(r, c, pos, rest) ==
  <<[op |-> "update", n |-> c.n, threw |-> r.threw, out |-> NoOut]>>
    \o Alone(r.h, pos + c.n, rest)

AloneFinalize(r, c, pos, rest) ==
  <<[op |-> "finalize", n |-> c.n, threw |-> FALSE, out |-> r.out]>>
    \o Alone(r.h, pos, rest)

AloneFinalizeXof(r, c, pos, rest) ==
  <<[op |-> "finalizeXof", n |-> 0, threw |-> FALSE, out |-> r.xof]>>
    \o Alone(r.h, pos, rest)

Alone(h, pos, calls) ==
  IF calls = <<>> THEN <<>>
  ELSE IF Head(calls).op = "update"
  THEN AloneUpdate(Hasher_update(h, pos, 0, Head(calls).n), Head(calls), pos, Tail(calls))
  ELSE IF Head(calls).op = "finalize"
  THEN AloneFinalize(Hasher_finalize(h, Head(calls).n), Head(calls), pos, Tail(calls))
  ELSE AloneFinalizeXof(Hasher_finalizeXof(h), Head(calls), pos, Tail(calls))

\* C27: for any interleaving of update, finalize and finalizeXof calls on
\* two Hashers, and of one-shot hash calls, every call on a Hasher returns
\* what it returns when the calls of that Hasher are run alone, in the same
\* order.
C27_HashersIndependent ==
  \A i \in 1..2 : call.calls[i] = Alone(Hasher(IV, 0), 0, call.calls[i])

\* The second Hasher finalized after both Hashers had compressed blocks
\* and a one-shot hash had run.
C27_Witness ==
  /\ hist = <<"u", "u", "h", "f">>
  /\ call.fed = <<1025, 1025>>
  /\ Len(call.calls[2]) = 2

\* What hashPureJS returns for the bytes and the output length of the latest
\* call, from a view at byteOffset 0, when no call has used the module
\* buffers before.
FirstCallOf == hashPureJS(ModuleInit, [len |-> call.len, off |-> 0], call.outLen)

\* C28: the one-shot hash is a function of the input bytes and outputLength:
\* whatever calls used the module buffers before (CV stack, block buffer,
\* output buffer, SIMD lane arrays), whatever the alignment of the input
\* view and whichever path is taken, a call returns what the first call of
\* the module returns for the same bytes, or throws as it does.
C28_HashDeterministic ==
  hist # <<>> =>
    /\ call.threw = FirstCallOf.threw
    /\ call.out = FirstCallOf.out

\* A call on an unaligned view of a single chunk after a call that left its
\* data in the module buffers.
C28_Witness ==
  /\ hist = <<"w", "h">>
  /\ call.len = 65
  /\ call.off = 1
  /\ call.outLen = 32
  /\ ~call.threw
  /\ mod.reusableTempCv # IVWords

\* The chunks of the input of the latest one-shot call.
CallChunks == (call.len + CHUNK_LEN - 1) \div CHUNK_LEN

\* The entries on the CV stack when the path the latest call took starts
\* "Finalize: merge remaining stack entries".
StackAtFinalize ==
  IF call.simd
  THEN simdGroups([m |-> mod, stackLen |-> 0], [len |-> call.len, off |-> call.off],
                  IS_LITTLE_ENDIAN /\ call.off % 4 = 0, 0).stackLen
  ELSE IF IS_LITTLE_ENDIAN /\ call.off % 4 = 0
  THEN pureLastChunk(pureFullChunks([m |-> mod, stackLen |-> 0],
                                    [len |-> call.len, off |-> call.off], 0),
                     [len |-> call.len, off |-> call.off]).stackLen
  ELSE pureSlowChunks([m |-> mod, stackLen |-> 0],
                      [len |-> call.len, off |-> call.off], 0).stackLen

\* C29: in the one-shot paths, for an input of N >= 2 chunks, the merge loop
\* of the chunks leaves the merge that makes the root to the finalization:
\* the stack then holds popcount(N) entries, 2 when N is a power of two, and
\* the root is compressed as a parent with PARENT | ROOT, never as a single
\* CV with ROOT alone.
C29_RootMergeDeferred ==
  (hist # <<>> /\ CallChunks >= 2) =>
    /\ StackAtFinalize = (IF popcount(Number(CallChunks)) = 1 THEN 2
                          ELSE popcount(Number(CallChunks)))
    /\ ~call.threw =>
         /\ call.out.seed[1] = IV
         /\ call.out.seed[2][1] = "par"
         /\ call.out.seed[3] = BLOCK_LEN
         /\ call.out.seed[4] = PARENT + ROOT

\* A SIMD call on 8 chunks, the last one full, after another call.
C29_Witness ==
  /\ hist = <<"w", "h">>
  /\ call.simd
  /\ call.len = 8 * CHUNK_LEN
  /\ ~call.threw

\* C30: under every sequence of update, finalize and finalizeXof calls the
\* cvStackLen of the Hasher is never negative and never above the capacity
\* of the stack: no pop is made on an empty stack.
C30_StackInBounds == hasher.cvStackLen \in 0..MAX_DEPTH

\* The same for the calls before the first finalize or finalizeXof.
C30_BeforeFinalization ==
  Count("f") + Count("x") = 0 =>
    /\ hasher.cvStackLen \in 0..MAX_DEPTH
    /\ hasher.cvStackLen = popcount(Number(hasher.chunkState.chunkCounter))
====
